---------------------------- MODULE Spec2Model ----------------------------
(***************************************************************************)
(* Model of PaperTradingBotRealPrice                                       *)
(* (src/bots/nanba_paper_trading_real_price.py): the account, the signal   *)
(* generator, admission of signals (open_position), evaluation of open     *)
(* positions (update_positions / close_position), the snapshot file and    *)
(* the trading loop (run).                                                 *)
(*                                                                         *)
(* Specifications.  Spec is run() as written; UnitSpec drives steps 4-6    *)
(* with given quotes and signals; SignalSpec applies generate_signals to   *)
(* drawn inputs; RestartSpec adds the process killed (between steps or     *)
(* within save_state) and started again (load_state); InterruptSpec adds   *)
(* KeyboardInterrupt and the handler of run().                             *)
(*                                                                         *)
(* Numbers.  The program computes with Python floats.  The model computes  *)
(* the same expressions, in the same order, over exact rationals           *)
(* [n |-> numerator, d |-> denominator > 0] in lowest terms, so a value is *)
(* the real number the float expression approximates.  Integers of the     *)
(* program (trade_counter, list lengths) are integers of the model.        *)
(*                                                                         *)
(* Containers.  A Python dict keeps insertion order; self.positions is a   *)
(* sequence of position records with distinct 'symbol' keys, in insertion  *)
(* order, and list(self.positions.items()) is that sequence.               *)
(***************************************************************************)
EXTENDS Integers, Sequences, FiniteSets, TLC

VARIABLES
    balance,          \* self.balance
    initial_balance,  \* self.initial_balance
    positions,        \* self.positions  (dict symbol -> position)
    trades,           \* self.trades     (list of trade dicts)
    trade_counter,    \* self.trade_counter
    state_file,       \* contents of self.state_file on disk (NoFile: absent)
    writes,           \* number of calls of save_state
    disk_faulty,      \* environment: whether a write to the disk may fail
    notified,         \* number of messages handed to the notification sink
    pc,               \* position of run() in its loop
    prices,           \* local 'prices' of run(): symbol -> quote or NoQuote
    sweeps,           \* local 'sweeps' of run()
    signals,          \* signals of this cycle not yet processed by step 4
    pending,          \* rest of list(self.positions.items()) in update_positions
    cycle,            \* number of cycles started (the logical clock)
    last              \* what the last step of the loop did (observation only)

account == <<balance, initial_balance, positions, trades, trade_counter>>
disk == <<state_file, writes, disk_faulty>>
vars == <<balance, initial_balance, positions, trades, trade_counter,
          state_file, writes, disk_faulty, notified, pc, prices, sweeps, signals, pending,
          cycle, last>>

---------------------------------------------------------------------------
(* Exact rational arithmetic standing for the float expressions.           *)

Abs(i) == IF i < 0 THEN -i ELSE i

RECURSIVE GCD(_, _)
GCD(a, b) == IF b = 0 THEN a ELSE GCD(b, a % b)

Rat(n, d) ==
    LET g == GCD(Abs(n), d)
    IN  [n |-> n \div g, d |-> d \div g]

Num(i) == [n |-> i, d |-> 1]

RAdd(x, y) ==
    LET g == GCD(x.d, y.d)
    IN  Rat(x.n * (y.d \div g) + y.n * (x.d \div g), (x.d \div g) * y.d)

RNeg(x) == [n |-> -x.n, d |-> x.d]

RSub(x, y) == RAdd(x, RNeg(y))

RMul(x, y) ==
    LET g1 == GCD(Abs(x.n), y.d)
        g2 == GCD(Abs(y.n), x.d)
    IN  [n |-> (x.n \div g1) * (y.n \div g2),
         d |-> (x.d \div g2) * (y.d \div g1)]

\* x / y for y # 0 (Python raises ZeroDivisionError for y = 0; the callers
\* below divide by quoted prices and by literals, which are positive).
RDiv(x, y) ==
    RMul(x, IF y.n < 0 THEN [n |-> -y.d, d |-> -y.n] ELSE [n |-> y.d, d |-> y.n])

\* x <= y and x < y, compared over the least common denominator
RLe(x, y) ==
    LET g == GCD(x.d, y.d)
    IN  x.n * (y.d \div g) <= y.n * (x.d \div g)

RLt(x, y) ==
    LET g == GCD(x.d, y.d)
    IN  x.n * (y.d \div g) < y.n * (x.d \div g)

RGe(x, y) == RLe(y, x)
RGt(x, y) == RLt(y, x)

\* Faulty variant: min(a, b, c) returning its first argument
RMin3First(x, y, z) == x

\* Python's min(a, b, c): the first of the smallest arguments.
RMin2(x, y) == IF RLt(y, x) THEN y ELSE x
RMin3(x, y, z) == RMin2(RMin2(x, y), z)

---------------------------------------------------------------------------
(* Program constants (__init__ and the literals of the methods).           *)

symbols == <<"BTC", "ETH", "SOL">>
max_position_size == Num(150)
tp_percent == Rat(6, 10)
sl_percent == Num(3)
min_confidence == Num(60)

\* None / a missing file, and a key missing from a feed record
NoFile == [none |-> "file"]
NoQuote == [none |-> "quote"]
NoKey == "NoKey"


---------------------------------------------------------------------------
(* A Python dict keyed by symbol, as the sequence of its values in         *)
(* insertion order (every value carries its key in the field 'symbol').    *)

HasKey(d, k) == \E i \in 1..Len(d) : d[i].symbol = k

DictGet(d, k) == d[CHOOSE i \in 1..Len(d) : d[i].symbol = k]

\* d[k] = v: replaces the value of an existing key in place, else appends.
DictSet(d, k, v) ==
    IF HasKey(d, k)
    THEN [i \in 1..Len(d) |-> IF d[i].symbol = k THEN v ELSE d[i]]
    ELSE Append(d, v)

\* del d[k]
DictDel(d, k) == SelectSeq(d, LAMBDA p : p.symbol # k)

---------------------------------------------------------------------------
(* Strings of the order-flow feed, as sequences of characters.             *)

SymbolChars(s) ==
    CASE s = "BTC" -> <<"B", "T", "C">>
      [] s = "ETH" -> <<"E", "T", "H">>
      [] s = "SOL" -> <<"S", "O", "L">>

\* str.upper() on the characters the feed uses
UpperChar(c) ==
    CASE c = "b" -> "B" [] c = "t" -> "T" [] c = "c" -> "C"
      [] c = "e" -> "E" [] c = "h" -> "H" [] c = "s" -> "S"
      [] c = "o" -> "O" [] c = "l" -> "L" [] c = "p" -> "P"
      [] c = "r" -> "R" [] c = "d" -> "D" [] c = "g" -> "G"
      [] OTHER -> c

Upper(str) == [i \in 1..Len(str) |-> UpperChar(str[i])]

\* sub in str
Contains(sub, str) ==
    \E k \in 0..(Len(str) - Len(sub)) :
        \A i \in 1..Len(sub) : str[k + i] = sub[i]

\* f"POS_{n:04d}": the decimal digits of n, padded with zeros to width 4
RECURSIVE Digits(_)
Digits(n) == IF n < 10 THEN <<n>> ELSE Append(Digits(n \div 10), n % 10)

RECURSIVE ZeroPad(_, _)
ZeroPad(ds, w) == IF Len(ds) >= w THEN ds ELSE ZeroPad(<<0>> \o ds, w)

PosId(n) == <<"P", "O", "S", "_">> \o ZeroPad(Digits(n), 4)

---------------------------------------------------------------------------
(* get_hyperliquid_price / get_all_prices                                  *)

\* The quote built from the best bid and ask of an order book.
Quote(symbol, bid, ask) ==
    LET mid == RDiv(RAdd(bid, ask), Num(2))
    IN  [symbol |-> symbol, bid |-> bid, ask |-> ask, mid |-> mid,
         spread |-> RMul(RDiv(RSub(ask, bid), mid), Num(100))]

\* get_hyperliquid_price(symbol) for the answer 'book' of the exchange:
\* NoQuote (None) when the request or the parsing raised.
get_hyperliquid_price(symbol, book) ==
    IF book = NoQuote THEN NoQuote
    ELSE Quote(symbol, Num(book.bid), Num(book.ask))

\* (variant: one failed fetch empties the whole result)
get_all_pricesAllOrNothing(books) ==
    [s \in DOMAIN books |->
        IF \E t \in DOMAIN books : books[t] = NoQuote THEN NoQuote
        ELSE get_hyperliquid_price(s, books[s])]

\* get_all_prices for the answers 'books' (symbol -> book or NoQuote):
\* a symbol whose fetch returned None is not a key of the result.
get_all_prices(books) ==
    [s \in DOMAIN books |-> get_hyperliquid_price(s, books[s])]

InPrices(s, pr) == s \in DOMAIN pr /\ pr[s] # NoQuote

\* 'if not prices': no symbol has a quote
NoPrices(pr) == \A s \in DOMAIN pr : pr[s] = NoQuote


---------------------------------------------------------------------------
(* generate_signals(sweeps, prices)                                        *)

\* sweep.get('trader', 'unknown'), the key of the grouping (line 151)
GroupKey(sweep) == IF sweep.trader = NoKey THEN "unknown" ELSE sweep.trader

\* sweep.get('trader', ''), the key looked up in the loop (line 187)
LookupKey(sweep) == IF sweep.trader = NoKey THEN "" ELSE sweep.trader

\* trader_activity[t]: the sweeps grouped under t, in batch order
TraderActivity(batch, t) == SelectSeq(batch, LAMBDA sw : GroupKey(sw) = t)

\* Faulty variant: line 165 without .upper()
ResolveSymbolCaseSensitive(market) ==
    LET hits == SelectSeq(symbols,
                    LAMBDA sym : Contains(SymbolChars(sym), market))
    IN  IF hits = <<>> THEN <<>> ELSE <<hits[1]>>

\* lines 163-167: the first tracked symbol contained in market.upper(),
\* <<>> for None
ResolveSymbol(market) ==
    LET hits == SelectSeq(symbols,
                    LAMBDA sym : Contains(SymbolChars(sym), Upper(market)))
    IN  IF hits = <<>> THEN <<>> ELSE <<hits[1]>>

\* Faulty variant: line 177 passing the side of the sweep on
InverseNot(side) == side

\* line 177: 'BUY' if side == 'SELL' else 'SELL'
Inverse(side) == IF side = "SELL" THEN "BUY" ELSE "SELL"

\* lines 173-183
LiquidationSignal(sweep, symbol, pr, bal) ==
    [symbol |-> symbol,
     side |-> Inverse(sweep.side),
     reason |-> <<"Large liquidation", sweep.usd_amount>>,
     confidence |->
        RMul(RMin2(RDiv(Num(sweep.usd_amount), Num(100000)), Rat(9, 10)),
             Num(100)),
     size |-> RMin3(RMul(Num(sweep.usd_amount), Rat(1, 100)),
                    RMul(bal, Rat(15, 100)), max_position_size),
     price |-> pr[symbol].mid]

\* Faulty variant: lines 189-190 without the test usd_amount >= 10000
TraderTradesAll(batch, trader) == TraderActivity(batch, trader)

\* lines 189-190
TraderTrades(batch, trader) ==
    SelectSeq(TraderActivity(batch, trader), LAMBDA t : t.usd_amount >= 10000)

\* lines 192-200
WhaleSignal(sweep, symbol, pr, bal, ntrades) ==
    [symbol |-> symbol,
     side |-> sweep.side,
     reason |-> <<"Whale", LookupKey(sweep), ntrades>>,
     confidence |-> Num(75),
     size |-> RMin3(RMul(Num(sweep.usd_amount), Rat(1, 10)),
                    RMul(bal, Rat(15, 100)), max_position_size),
     price |-> pr[symbol].mid]

\* Faulty variant: line 173 with size >= 1000 for size > 1000
LargeLiquidationSizeInclusive(sweep) ==
    sweep.usd_amount >= 50000 /\ sweep.size >= 1000

\* line 173: if usd_amount >= 50000 and size > 1000
LargeLiquidation(sweep) == sweep.usd_amount >= 50000 /\ sweep.size > 1000

\* Faulty variant: the whale signal of a sweep appended before its
\* liquidation signal
SweepSignalsWhaleFirst(batch, sweep, pr, bal) ==
    LET res == ResolveSymbol(sweep.market)
    IN  IF res = <<>> \/ ~InPrices(res[1], pr) THEN <<>>
        ELSE
          LET symbol == res[1]
              liq == IF LargeLiquidation(sweep)
                     THEN <<LiquidationSignal(sweep, symbol, pr, bal)>>
                     ELSE <<>>
              trader == LookupKey(sweep)
              known == \E i \in 1..Len(batch) : GroupKey(batch[i]) = trader
              n == IF known THEN Len(TraderTrades(batch, trader)) ELSE 0
              whale == IF known /\ n >= 2
                       THEN <<WhaleSignal(sweep, symbol, pr, bal, n)>>
                       ELSE <<>>
          IN  whale \o liq

\* The signals one sweep appends (body of the loop of line 156)
SweepSignals(batch, sweep, pr, bal) ==
    LET res == ResolveSymbol(sweep.market)
    IN  IF res = <<>> \/ ~InPrices(res[1], pr) THEN <<>>
        ELSE
          LET symbol == res[1]
              liq == IF LargeLiquidation(sweep)
                     THEN <<LiquidationSignal(sweep, symbol, pr, bal)>>
                     ELSE <<>>
              trader == LookupKey(sweep)
              known == \E i \in 1..Len(batch) : GroupKey(batch[i]) = trader
              n == IF known THEN Len(TraderTrades(batch, trader)) ELSE 0
              whale == IF known /\ n >= 2
                       THEN <<WhaleSignal(sweep, symbol, pr, bal, n)>>
                       ELSE <<>>
          IN  liq \o whale

RECURSIVE SignalsFrom(_, _, _, _)
SignalsFrom(batch, i, pr, bal) ==
    IF i > Len(batch) THEN <<>>
    ELSE SweepSignals(batch, batch[i], pr, bal)
            \o SignalsFrom(batch, i + 1, pr, bal)

generate_signals(batch, pr, bal) == SignalsFrom(batch, 1, pr, bal)


---------------------------------------------------------------------------
(* The account as one value: the fields the methods read and assign.       *)

Acct ==
    [balance |-> balance, positions |-> positions, trades |-> trades,
     trade_counter |-> trade_counter]

---------------------------------------------------------------------------
(* open_position(signal)                                                   *)

\* Faulty variant: the check of line 211 left out
AlreadyHaveNever(a, symbol) == FALSE

\* line 211: if symbol in self.positions
AlreadyHave(a, symbol) == HasKey(a.positions, symbol)

\* Faulty variant: line 217 with >= for >
InsufficientOrEqual(a, size) == RGe(size, a.balance)

\* line 217: if size > self.balance
Insufficient(a, size) == RGt(size, a.balance)

\* Faulty variant: lines 224-225 taken for both sides
TpSlIgnoringSide(entry_price, side) ==
    [tp_price |-> RMul(entry_price, RAdd(Num(1), RDiv(tp_percent, Num(100)))),
     sl_price |-> RMul(entry_price, RSub(Num(1), RDiv(sl_percent, Num(100))))]

\* lines 222-228: take-profit and stop-loss prices of an entry
TpSl(entry_price, side) ==
    IF side = "BUY"
    THEN [tp_price |->
            RMul(entry_price, RAdd(Num(1), RDiv(tp_percent, Num(100)))),
          sl_price |->
            RMul(entry_price, RSub(Num(1), RDiv(sl_percent, Num(100))))]
    ELSE [tp_price |->
            RMul(entry_price, RSub(Num(1), RDiv(tp_percent, Num(100)))),
          sl_price |->
            RMul(entry_price, RAdd(Num(1), RDiv(sl_percent, Num(100))))]

\* Faulty variant: line 222 taking the quoted price plus 5% as entry price
NewPositionSlipped(a, signal, now) ==
    LET entry_price == RMul(signal.price, Rat(105, 100))
    IN  [id |-> PosId(a.trade_counter),
         symbol |-> signal.symbol,
         side |-> signal.side,
         entry_price |-> entry_price,
         size |-> signal.size,
         tp_price |-> TpSl(entry_price, signal.side).tp_price,
         sl_price |-> TpSl(entry_price, signal.side).sl_price,
         confidence |-> signal.confidence,
         reason |-> signal.reason,
         opened_at |-> now]

\* lines 230-241
NewPosition(a, signal, now) ==
    [id |-> PosId(a.trade_counter),
     symbol |-> signal.symbol,
     side |-> signal.side,
     entry_price |-> signal.price,
     size |-> signal.size,
     tp_price |-> TpSl(signal.price, signal.side).tp_price,
     sl_price |-> TpSl(signal.price, signal.side).sl_price,
     confidence |-> signal.confidence,
     reason |-> signal.reason,
     opened_at |-> now]

\* Faulty variant: line 245 adding 2
StorePositionCountTwice(a, position) ==
    [a EXCEPT !.positions = DictSet(a.positions, position.symbol, position),
              !.balance = RSub(a.balance, position.size),
              !.trade_counter = a.trade_counter + 2]

\* Faulty variant: lines 243-244 without the increment of line 245
StorePositionKeepCounter(a, position) ==
    [a EXCEPT !.positions = DictSet(a.positions, position.symbol, position),
              !.balance = RSub(a.balance, position.size)]

\* lines 243-245
StorePosition(a, position) ==
    [a EXCEPT !.positions = DictSet(a.positions, position.symbol, position),
              !.balance = RSub(a.balance, position.size),
              !.trade_counter = a.trade_counter + 1]

\* Faulty variant: open_position storing the position of the latest signal
open_positionLatestWins(a, signal, now) ==
    IF RGt(signal.size, a.balance)
    THEN [outcome |-> "insufficient", acct |-> a]
    ELSE [outcome |-> "opened",
          acct |->
            [a EXCEPT
               !.positions =
                   DictSet(a.positions, signal.symbol,
                       [id |-> PosId(a.trade_counter),
                        symbol |-> signal.symbol,
                        side |-> signal.side,
                        entry_price |-> signal.price,
                        size |-> signal.size,
                        tp_price |-> signal.price,
                        sl_price |-> signal.price,
                        confidence |-> signal.confidence,
                        reason |-> signal.reason,
                        opened_at |-> now]),
               !.balance = RSub(a.balance, signal.size),
               !.trade_counter = a.trade_counter + 1]]

\* open_position: the outcome and the account it leaves
open_position(a, signal, now) ==
    IF AlreadyHave(a, signal.symbol)
    THEN [outcome |-> "duplicate", acct |-> a]
    ELSE IF Insufficient(a, signal.size)
    THEN [outcome |-> "insufficient", acct |-> a]
    ELSE [outcome |-> "opened",
          acct |-> StorePosition(a, NewPosition(a, signal, now))]

\* Faulty variant: line 430 with > for >=
PassesConfidenceStrict(signal) == RGt(signal.confidence, min_confidence)

\* line 430: if signal['confidence'] >= self.min_confidence
PassesConfidence(signal) == RGe(signal.confidence, min_confidence)

---------------------------------------------------------------------------
(* update_positions(prices) / close_position                               *)

\* lines 268-271
PnlPct(position, current_price) ==
    IF position.side = "BUY"
    THEN RMul(RDiv(RSub(current_price, position.entry_price),
                   position.entry_price), Num(100))
    ELSE RMul(RDiv(RSub(position.entry_price, current_price),
                   position.entry_price), Num(100))

\* Faulty variant: lines 274 and 277 with strict comparisons
CloseReasonStrict(pnl_pct) ==
    IF RGt(pnl_pct, tp_percent) THEN "TAKE_PROFIT"
    ELSE IF RLt(pnl_pct, RNeg(sl_percent)) THEN "STOP_LOSS"
    ELSE "NONE"

\* lines 274-278: the reason to close, "NONE" to leave the position open
CloseReason(pnl_pct) ==
    IF RGe(pnl_pct, tp_percent) THEN "TAKE_PROFIT"
    ELSE IF RLe(pnl_pct, RNeg(sl_percent)) THEN "STOP_LOSS"
    ELSE "NONE"

\* Faulty variant: line 286 without the division by 100
PnlAmountUnscaled(size, pnl_pct) == RMul(size, pnl_pct)

\* line 286
PnlAmount(size, pnl_pct) == RMul(size, RDiv(pnl_pct, Num(100)))

\* lines 289-301
NewTrade(position, exit_price, reason, pnl_pct, now) ==
    [id |-> position.id,
     symbol |-> position.symbol,
     side |-> position.side,
     entry_price |-> position.entry_price,
     exit_price |-> exit_price,
     size |-> position.size,
     pnl_pct |-> pnl_pct,
     pnl_amount |-> PnlAmount(position.size, pnl_pct),
     reason |-> reason,
     opened_at |-> position.opened_at,
     closed_at |-> now]

\* Faulty variant: line 287 crediting the P&L without the escrowed size
close_positionPnlOnly(a, position, exit_price, reason, pnl_pct, now) ==
    [a EXCEPT
       !.balance = RAdd(a.balance, RMul(position.size, RDiv(pnl_pct, Num(100)))),
       !.trades = Append(a.trades,
                         [id |-> position.id,
                          symbol |-> position.symbol,
                          side |-> position.side,
                          entry_price |-> position.entry_price,
                          exit_price |-> exit_price,
                          size |-> position.size,
                          pnl_pct |-> pnl_pct,
                          pnl_amount |->
                              RMul(position.size, RDiv(pnl_pct, Num(100))),
                          reason |-> reason,
                          opened_at |-> position.opened_at,
                          closed_at |-> now]),
       !.positions = DictDel(a.positions, position.symbol)]

\* Faulty variant: line 303 putting the trade at the head of the history
close_positionNewestFirst(a, position, exit_price, reason, pnl_pct, now) ==
    [a EXCEPT
       !.balance = RAdd(a.balance,
                        RAdd(position.size, PnlAmount(position.size, pnl_pct))),
       !.trades = <<NewTrade(position, exit_price, reason, pnl_pct, now)>>
                     \o a.trades,
       !.positions = DictDel(a.positions, position.symbol)]

\* lines 282-304: the account after close_position
close_position(a, position, exit_price, reason, pnl_pct, now) ==
    [a EXCEPT
       !.balance = RAdd(a.balance,
                        RAdd(position.size, PnlAmount(position.size, pnl_pct))),
       !.trades = Append(a.trades,
                         NewTrade(position, exit_price, reason, pnl_pct, now)),
       !.positions = DictDel(a.positions, position.symbol)]

---------------------------------------------------------------------------
(* save_state                                                              *)

\* lines 84-90: the document save_state dumps
Snapshot(a, now) ==
    [balance |-> a.balance, positions |-> a.positions, trades |-> a.trades,
     trade_counter |-> a.trade_counter, timestamp |-> now]

\* The members of the document of lines 84-90, in the order json.dump
\* writes them.
SnapshotKeys ==
    <<"balance", "positions", "trades", "trade_counter", "timestamp">>

\* The file when the process dies in lines 91-92 after k members of doc
\* reached the disk: open(..., 'w') has truncated the file, and the
\* document lacks its end.
Torn(doc, k) ==
    [partial |-> [i \in 1..k |-> <<SnapshotKeys[i], doc[SnapshotKeys[i]]>>]]

IsTorn(file) == "partial" \in DOMAIN file

\* Faulty variant: save_state writing only when there is no file yet
save_stateOnce(file, a, now, outcome) ==
    IF file = NoFile THEN Snapshot(a, now) ELSE file

\* Faulty variant: a file left cut by a failed write is not written again
save_stateKeepingCut(file, a, now, outcome) ==
    CASE IsTorn(file) \/ outcome = "refused" -> file
      [] outcome = "written" -> Snapshot(a, now)
      [] OTHER -> Torn(Snapshot(a, now), 2)

\* lines 82-94: the file after save_state.  An exception raised before the
\* file is opened (makedirs or open refused) leaves the file as it was;
\* one raised by json.dump (the disk is full) leaves the beginning of the
\* document in the file open(..., 'w') has truncated.  Both are caught and
\* logged (line 93), and save_state returns.
save_state(file, a, now, outcome) ==
    CASE outcome = "written" -> Snapshot(a, now)
      [] outcome = "refused" -> file
      [] outcome = "cut"     -> Torn(Snapshot(a, now), 2)

\* The outcomes of one write: it succeeds, or (on a faulty disk) may fail.
SaveOutcomes ==
    IF disk_faulty THEN {"written", "refused", "cut"} ELSE {"written"}

\* The file a process killed in save_state may leave: killed before line 91
\* (the file as it was), after the open of line 91 (an empty file), within
\* json.dump (a part of the document), after the write (the document).
KillOutcomes(file, doc) == {file, Torn(doc, 0), Torn(doc, 2), doc}

---------------------------------------------------------------------------
(* load_state                                                              *)

\* A file holding a JSON value that is no object (here the array [])
NotAnObject == [array |-> <<>>]

IsObject(file) == "array" \notin DOMAIN file

\* Faulty variant: load_state without the assignment of line 75
load_stateWithoutCounter(file, a) ==
    IF file = NoFile \/ IsTorn(file) \/ ~IsObject(file) THEN a
    ELSE [balance |->
              IF "balance" \in DOMAIN file THEN file.balance ELSE a.balance,
          positions |->
              IF "positions" \in DOMAIN file THEN file.positions ELSE <<>>,
          trades |->
              IF "trades" \in DOMAIN file THEN file.trades ELSE <<>>,
          trade_counter |-> a.trade_counter]

\* lines 68-78 on the account a that __init__ has just set up.  With no
\* file nothing is assigned (line 69); json.load raises on a document
\* without its end, and state.get (line 72) on a value that is no object,
\* before any assignment, and line 77 catches it; else the four
\* state.get(...) of lines 72-75 are assigned, each with its default for a
\* member the document lacks.  (json.load returns
\* values equal to those json.dump was given: strings, integers, finite
\* floats, lists and dicts with string keys in their order.)
load_state(file, a) ==
    IF file = NoFile \/ IsTorn(file) \/ ~IsObject(file) THEN a
    ELSE [balance |->
              IF "balance" \in DOMAIN file THEN file.balance ELSE a.balance,
          positions |->
              IF "positions" \in DOMAIN file THEN file.positions ELSE <<>>,
          trades |->
              IF "trades" \in DOMAIN file THEN file.trades ELSE <<>>,
          trade_counter |->
              IF "trade_counter" \in DOMAIN file THEN file.trade_counter
              ELSE 0]


---------------------------------------------------------------------------
(* Bounds and inputs of the model.                                         *)

\* number of cycles of run() explored
MaxCycles == 2

\* Order books the exchange may answer with, per symbol (best bid, best
\* ask).  The mids are 1000 and 1006 (+0.6%) for BTC, 1500 and 1455 (-3%)
\* for ETH, 3 and 23 (+666.67%) for SOL.
Books(s) ==
    CASE s = "BTC" -> {[bid |-> 999, ask |-> 1001],
                       [bid |-> 1005, ask |-> 1007]}
      [] s = "ETH" -> {[bid |-> 1499, ask |-> 1501],
                       [bid |-> 1454, ask |-> 1456]}
      [] s = "SOL" -> {[bid |-> 2, ask |-> 4],
                       [bid |-> 22, ask |-> 24]}

SymbolSet == {symbols[i] : i \in 1..Len(symbols)}

\* every answer of the exchange to one round of requests
BookMaps ==
    { f \in [SymbolSet -> UNION {Books(s) : s \in SymbolSet} \cup {NoQuote}] :
        \A s \in SymbolSet : f[s] \in Books(s) \cup {NoQuote} }

Sweep(trader, market, side, usd_amount, size) ==
    [trader |-> trader, market |-> market, side |-> side,
     usd_amount |-> usd_amount, size |-> size]

BtcPerp == <<"B", "T", "C", "-", "P", "E", "R", "P">>
EthPerp == <<"E", "T", "H", "-", "P", "E", "R", "P">>
EthLower == <<"e", "t", "h", "-", "p", "e", "r", "p">>
SolLower == <<"s", "o", "l", "-", "p", "e", "r", "p">>
Doge == <<"D", "O", "G", "E">>

\* Batches the order-flow source may answer with.
Batches ==
    { <<>>,
      \* one liquidation sweep, confidence exactly 60
      << Sweep("T2", EthPerp, "SELL", 60000, 1500) >>,
      \* one liquidation sweep, confidence 50
      << Sweep("T2", BtcPerp, "BUY", 50000, 1500) >>,
      \* one liquidation sweep, confidence 70, fading a buy
      << Sweep("T2", SolLower, "BUY", 70000, 2000) >>,
      \* a whale with a small sweep on BTC and two large ones elsewhere
      << Sweep("T1", BtcPerp, "BUY", 1000, 10),
         Sweep("T1", Doge, "BUY", 12000, 10),
         Sweep("T1", Doge, "BUY", 12000, 10) >>,
      \* a whale with two large sweeps on ETH
      << Sweep("T1", EthPerp, "SELL", 12000, 10),
         Sweep("T1", EthPerp, "SELL", 12000, 10) >>,
      \* two liquidation sweeps on two symbols
      << Sweep("T2", EthPerp, "SELL", 60000, 1500),
         Sweep("T2", BtcPerp, "SELL", 60000, 1500) >>,
      \* a liquidation by a whale, and a tiny sweep of the same trader
      << Sweep("T1", SolLower, "BUY", 70000, 2000),
         Sweep("T1", BtcPerp, "SELL", 50, 1),
         Sweep("T1", Doge, "BUY", 12000, 10) >>,
      \* a liquidation of confidence 50 by a whale
      << Sweep("T1", BtcPerp, "BUY", 50000, 1500),
         Sweep("T1", Doge, "BUY", 12000, 10) >> }

\* initial_balance of the constructor (its default)
InitialBalances == {Num(1000)}

---------------------------------------------------------------------------
(* What a step of the loop did, for observation.                           *)

Did(op, sig, pos, pct, effects, saved, delivered) ==
    [op |-> op, signal |-> sig, position |-> pos, pnl_pct |-> pct,
     effects |-> effects, saved |-> saved, delivered |-> delivered]

Plain(op) == Did(op, <<>>, <<>>, <<>>, <<>>, FALSE, FALSE)

\* step 1 fetched the quotes from the answers 'books' of the exchange
Fetched(op, books) ==
    [op |-> op, signal |-> <<>>, position |-> <<>>, pnl_pct |-> <<>>,
     effects |-> <<>>, saved |-> FALSE, delivered |-> FALSE, books |-> books]

\* step 3 generated the signals from the batch
Generated(batch) ==
    [op |-> "generate", signal |-> <<>>, position |-> <<>>, pnl_pct |-> <<>>,
     effects |-> <<>>, saved |-> FALSE, delivered |-> FALSE, batch |-> batch]

---------------------------------------------------------------------------
(* __init__ with no snapshot on disk.                                      *)

Init ==
    /\ initial_balance \in InitialBalances
    /\ balance = initial_balance
    /\ positions = <<>>
    /\ trades = <<>>
    /\ trade_counter = 0
    /\ state_file = NoFile
    /\ writes = 0
    /\ disk_faulty = FALSE
    /\ notified = 0
    /\ pc = "prices"
    /\ prices = [s \in SymbolSet |-> NoQuote]
    /\ sweeps = <<>>
    /\ signals = <<>>
    /\ pending = <<>>
    /\ cycle = 0
    /\ last = Plain("init")

---------------------------------------------------------------------------
(* notify_telegram_open / notify_telegram_close                            *)

\* (variant: a delivery that fails raises out of the function, and the
\* save of line 256 is not reached)
notify_telegram_openRaising(delivered) == delivered

\* lines 320-345: TRUE when the function returns to its caller; the request
\* is made inside try, and a delivery that fails is caught and printed
\* (lines 344-345).
notify_telegram_open(delivered) == TRUE

\* lines 349-373, the same for a close
notify_telegram_close(delivered) == TRUE

---------------------------------------------------------------------------
(* run(): one action per step of the loop.                                 *)

\* Step 1, lines 411-415: fetch the quotes; with none, sleep and retry.
GetAllPrices ==
    /\ pc = "prices"
    /\ cycle < MaxCycles
    /\ \E books \in BookMaps :
         /\ prices' = get_all_prices(books)
         /\ IF NoPrices(get_all_prices(books))
            THEN pc' = "prices" /\ last' = Fetched("no_prices", books)
            ELSE pc' = "sweeps" /\ last' = Fetched("prices", books)
    /\ cycle' = cycle + 1
    /\ UNCHANGED <<account, disk, notified, sweeps, signals, pending>>

\* lines 135-142: the answer of the source, or [] when the request or
\* the parsing raised (ok = FALSE).
fetch_moondev_sweeps(answer, ok) == IF ok THEN answer ELSE <<>>

\* (variant: a fetch that failed makes run() skip the cycle)
FetchMoondevSweepsSkipCycle ==
    /\ pc = "sweeps"
    /\ \E batch \in Batches, ok \in BOOLEAN :
         /\ sweeps' = fetch_moondev_sweeps(batch, ok)
         /\ pc' = IF ok THEN "generate" ELSE "prices"
         /\ prices' = IF ok THEN prices ELSE [s \in SymbolSet |-> NoQuote]
         /\ last' = IF ok THEN Plain("sweeps") ELSE Plain("feed_unavailable")
    /\ UNCHANGED <<account, disk, notified, signals, pending, cycle>>

\* Step 2, line 421: fetch the sweeps.
FetchMoondevSweeps ==
    /\ pc = "sweeps"
    /\ \E batch \in Batches, ok \in BOOLEAN :
         /\ sweeps' = fetch_moondev_sweeps(batch, ok)
         /\ last' = IF ok THEN Plain("sweeps") ELSE Plain("feed_unavailable")
    /\ pc' = "generate"
    /\ UNCHANGED <<account, disk, notified, prices, signals, pending, cycle>>

\* Step 3, line 425.  (The local 'sweeps' is not read again; it is cleared.)
GenerateSignals ==
    /\ pc = "generate"
    /\ signals' = generate_signals(sweeps, prices, balance)
    /\ sweeps' = <<>>
    /\ pc' = "admit"
    /\ last' = Generated(sweeps)
    /\ UNCHANGED <<account, disk, notified, prices, pending, cycle>>

\* Step 4, lines 429-431: one iteration of the loop over the signals, with
\* the whole of open_position (notification and save included).
ProcessSignal ==
    /\ pc = "admit"
    /\ signals # <<>>
    /\ LET signal == Head(signals)
           r == open_position(Acct, signal, cycle)
       IN  IF ~PassesConfidence(signal)
           THEN /\ last' = Did("gated", <<signal>>, <<>>, <<>>, <<>>,
                               FALSE, FALSE)
                /\ UNCHANGED <<account, disk, notified>>
           ELSE IF r.outcome # "opened"
           THEN /\ last' = Did(r.outcome, <<signal>>, <<>>, <<>>, <<>>,
                               FALSE, FALSE)
                /\ UNCHANGED <<account, disk, notified>>
           ELSE \E saved \in SaveOutcomes, delivered \in BOOLEAN :
                /\ balance' = r.acct.balance
                /\ positions' = r.acct.positions
                /\ trade_counter' = r.acct.trade_counter
                /\ notified' = notified + 1
                /\ IF notify_telegram_open(delivered)
                   THEN /\ state_file' = save_state(state_file, r.acct,
                                                    cycle, saved)
                        /\ writes' = writes + 1
                   ELSE UNCHANGED <<state_file, writes>>
                /\ UNCHANGED disk_faulty
                /\ last' = Did("opened", <<signal>>,
                               <<DictGet(r.acct.positions, signal.symbol)>>,
                               <<>>, <<"store", "notify", "save">>,
                               saved = "written", delivered)
                /\ UNCHANGED <<initial_balance, trades>>
    /\ signals' = Tail(signals)
    /\ UNCHANGED <<pc, prices, sweeps, pending, cycle>>

\* Faulty variant: update_positions visiting only the positions opened in
\* this cycle (a position carried over is never evaluated again)
BeginUpdateNewOnly ==
    /\ pc = "admit"
    /\ signals = <<>>
    /\ pending' = SelectSeq(positions, LAMBDA p : p.opened_at = cycle)
    /\ pc' = "update"
    /\ last' = Plain("begin_update")
    /\ UNCHANGED <<account, disk, notified, prices, sweeps, signals, cycle>>

\* Step 5, lines 434 and 260: update_positions starts on a copy of the
\* items of self.positions.
BeginUpdate ==
    /\ pc = "admit"
    /\ signals = <<>>
    /\ pending' = positions
    /\ pc' = "update"
    /\ last' = Plain("begin_update")
    /\ UNCHANGED <<account, disk, notified, prices, sweeps, signals, cycle>>

\* (variant: the loop runs over self.positions itself, and ends at the
\* first close, which changes the dict under it)
RemainingItemsLive(items, live) ==
    IF HasKey(live, Head(items).symbol) THEN Tail(items) ELSE <<>>

\* line 260: the items still to come in the loop over the copy
\* list(self.positions.items()), whatever the iteration did to the dict
\* 'live' itself.
RemainingItems(items, live) == Tail(items)

\* Lines 260-278: one iteration of the loop of update_positions, with the
\* whole of close_position (notification and save included).
UpdatePosition ==
    /\ pc = "update"
    /\ pending # <<>>
    /\ LET position == Head(pending)
           symbol == position.symbol
       IN  IF ~InPrices(symbol, prices)
           THEN /\ last' = Did("no_quote", <<>>, <<position>>, <<>>, <<>>,
                               FALSE, FALSE)
                /\ UNCHANGED <<account, disk, notified>>
           ELSE
             LET current_price == prices[symbol].mid
                 pnl_pct == PnlPct(position, current_price)
                 reason == CloseReason(pnl_pct)
                 a == close_position(Acct, position, current_price, reason,
                                     pnl_pct, cycle)
             IN  IF reason = "NONE"
                 THEN /\ last' = Did("hold", <<>>, <<position>>, <<pnl_pct>>,
                                     <<>>, FALSE, FALSE)
                      /\ UNCHANGED <<account, disk, notified>>
                 ELSE \E saved \in SaveOutcomes, delivered \in BOOLEAN :
                      /\ balance' = a.balance
                      /\ trades' = a.trades
                      /\ positions' = a.positions
                      /\ notified' = notified + 1
                      /\ IF notify_telegram_close(delivered)
                         THEN /\ state_file' = save_state(state_file, a,
                                                          cycle, saved)
                              /\ writes' = writes + 1
                         ELSE UNCHANGED <<state_file, writes>>
                      /\ UNCHANGED disk_faulty
                      /\ last' = Did("closed", <<>>, <<position>>,
                                     <<pnl_pct>>,
                                     <<"credit", "append", "delete",
                                       "notify", "save">>,
                                     saved = "written", delivered)
                      /\ UNCHANGED <<initial_balance, trade_counter>>
    /\ pending' = RemainingItems(pending, positions')
    /\ UNCHANGED <<pc, prices, sweeps, signals, cycle>>

\* Steps 5-6, lines 437-440: update_positions returns, the summary is
\* printed and the loop sleeps.  (The local 'prices' is assigned anew by
\* the next iteration before it is read; it is cleared.)
EndCycle ==
    /\ pc = "update"
    /\ pending = <<>>
    /\ pc' = "prices"
    /\ prices' = [s \in SymbolSet |-> NoQuote]
    /\ last' = Plain("end_cycle")
    /\ UNCHANGED <<account, disk, notified, sweeps, signals, pending, cycle>>

Next ==
    \/ GetAllPrices
    \/ FetchMoondevSweeps
    \/ GenerateSignals
    \/ ProcessSignal
    \/ BeginUpdate
    \/ UpdatePosition
    \/ EndCycle

Spec == Init /\ [][Next]_vars


---------------------------------------------------------------------------
(* The position manager driven directly: each cycle is given a quote map   *)
(* and a list of signals (any side, confidence and size), which steps 4    *)
(* and 5 of run() then process.                                            *)

\* number of directly driven cycles explored (a position is opened in one
\* cycle, may lack a quote in the next and be evaluated in the third)
MaxUnitCycles == 3

\* Order books of the direct cycles: mids 50000 and 50310 for BTC, 1500
\* and 1455 for ETH; SOL is not quoted.
UnitBooks(s) ==
    CASE s = "BTC" -> {[bid |-> 49990, ask |-> 50010],
                       [bid |-> 50300, ask |-> 50320]}
      [] s = "ETH" -> {[bid |-> 1499, ask |-> 1501],
                       [bid |-> 1454, ask |-> 1456]}
      [] s = "SOL" -> {}

UnitBookMaps ==
    { f \in [SymbolSet -> UNION {UnitBooks(s) : s \in SymbolSet}
                            \cup {NoQuote}] :
        \A s \in SymbolSet : f[s] \in UnitBooks(s) \cup {NoQuote} }

\* A signal on a quoted symbol, priced at the mid as generate_signals does.
Signal(symbol, side, confidence, size, pr) ==
    [symbol |-> symbol, side |-> side, reason |-> <<"direct">>,
     confidence |-> Num(confidence), size |-> Num(size),
     price |-> pr[symbol].mid]

\* (symbol, side, confidence, size) of the signals given to a cycle
SignalChoices ==
    { <<"BTC", "BUY", 70, 100>>,
      <<"BTC", "SELL", 59, 100>>,
      <<"ETH", "SELL", 60, 900>>,
      <<"ETH", "BUY", 90, 2000>>,
      <<"BTC", "BUY", 75, 5>> }

\* the lists of signals a cycle may be given under the quotes pr
UnitSignalLists(pr) ==
    LET quoted == {c \in SignalChoices : InPrices(c[1], pr)}
        sig(c) == Signal(c[1], c[2], c[3], c[4], pr)
    IN  {<<>>} \cup {<<sig(c)>> : c \in quoted}
          \cup {<<sig(c), sig(e)>> :
                   c \in {x \in quoted : x = <<"BTC", "BUY", 70, 100>>},
                   e \in quoted}

FeedSignals ==
    /\ pc = "prices"
    /\ cycle < MaxUnitCycles
    /\ \E books \in UnitBookMaps :
         /\ prices' = get_all_prices(books)
         /\ \E list \in UnitSignalLists(get_all_prices(books)) :
              signals' = list
    /\ pc' = "admit"
    /\ cycle' = cycle + 1
    /\ last' = Plain("generate")
    /\ UNCHANGED <<account, disk, notified, sweeps, pending>>

UnitNext ==
    \/ FeedSignals
    \/ ProcessSignal
    \/ BeginUpdate
    \/ UpdatePosition
    \/ EndCycle

UnitSpec == Init /\ [][UnitNext]_vars

\* The same steps on a disk whose writes may fail.
FaultyInit ==
    /\ initial_balance \in InitialBalances
    /\ balance = initial_balance
    /\ positions = <<>>
    /\ trades = <<>>
    /\ trade_counter = 0
    /\ state_file = NoFile
    /\ writes = 0
    /\ disk_faulty = TRUE
    /\ notified = 0
    /\ pc = "prices"
    /\ prices = [s \in SymbolSet |-> NoQuote]
    /\ sweeps = <<>>
    /\ signals = <<>>
    /\ pending = <<>>
    /\ cycle = 0
    /\ last = Plain("init")

FaultySpec == FaultyInit /\ [][UnitNext]_vars


---------------------------------------------------------------------------
(* The process killed and started again.  A kill falls between two steps   *)
(* of the loop or into the save_state that ends open_position or           *)
(* close_position; the next start runs __init__, which calls load_state.   *)

\* initial_balance given to the constructor by a start of the process
ConfiguredBalances == {Num(1000), Num(500)}

NoQuotes == [s \in SymbolSet |-> NoQuote]

\* The process is killed between two steps; its locals are gone.
KillProcess ==
    /\ pc # "down"
    /\ pc' = "down"
    /\ prices' = NoQuotes
    /\ sweeps' = <<>>
    /\ signals' = <<>>
    /\ pending' = <<>>
    /\ last' = Plain("killed")
    /\ UNCHANGED <<account, disk, notified, cycle>>

\* open_position (lines 208-256) on an admitted signal, the process killed
\* within the save_state of line 256.
KillInOpenSave ==
    /\ pc = "admit"
    /\ signals # <<>>
    /\ LET signal == Head(signals)
           r == open_position(Acct, signal, cycle)
       IN  /\ PassesConfidence(signal)
           /\ r.outcome = "opened"
           /\ balance' = r.acct.balance
           /\ positions' = r.acct.positions
           /\ trade_counter' = r.acct.trade_counter
           /\ notified' = notified + 1
           /\ state_file' \in
                 KillOutcomes(state_file, Snapshot(r.acct, cycle))
           /\ writes' = writes + 1
           /\ last' = Did("killed_in_save", <<signal>>,
                          <<DictGet(r.acct.positions, signal.symbol)>>,
                          <<>>, <<"store", "notify", "save">>, FALSE, TRUE)
    /\ pc' = "down"
    /\ prices' = NoQuotes
    /\ sweeps' = <<>>
    /\ signals' = <<>>
    /\ pending' = <<>>
    /\ UNCHANGED <<initial_balance, trades, disk_faulty, cycle>>

\* close_position (lines 282-316) on a position that meets a threshold,
\* the process killed within the save_state of line 316.
KillInCloseSave ==
    /\ pc = "update"
    /\ pending # <<>>
    /\ InPrices(Head(pending).symbol, prices)
    /\ LET position == Head(pending)
           current_price == prices[position.symbol].mid
           pnl_pct == PnlPct(position, current_price)
           reason == CloseReason(pnl_pct)
           a == close_position(Acct, position, current_price, reason,
                               pnl_pct, cycle)
       IN  /\ reason # "NONE"
           /\ balance' = a.balance
           /\ trades' = a.trades
           /\ positions' = a.positions
           /\ notified' = notified + 1
           /\ state_file' \in KillOutcomes(state_file, Snapshot(a, cycle))
           /\ writes' = writes + 1
           /\ last' = Did("killed_in_save", <<>>, <<position>>, <<pnl_pct>>,
                          <<"credit", "append", "delete", "notify", "save">>,
                          FALSE, TRUE)
    /\ pc' = "down"
    /\ prices' = NoQuotes
    /\ sweeps' = <<>>
    /\ signals' = <<>>
    /\ pending' = <<>>
    /\ UNCHANGED <<initial_balance, trade_counter, disk_faulty, cycle>>

\* The process is started: __init__ (lines 43-58) with the configured
\* initial balance, load_state included, then run() at step 1.
\* (variant: the balance is the constructor's default of 1000 whatever
\* balance was configured)
RestartDefaultBalance ==
    /\ pc = "down"
    /\ \E configured \in ConfiguredBalances :
         LET fresh == [balance |-> Num(1000), positions |-> <<>>,
                       trades |-> <<>>, trade_counter |-> 0]
             a == load_state(state_file, fresh)
         IN  /\ initial_balance' = configured
             /\ balance' = a.balance
             /\ positions' = a.positions
             /\ trades' = a.trades
             /\ trade_counter' = a.trade_counter
    /\ pc' = "prices"
    /\ last' = Plain("restart")
    /\ UNCHANGED <<disk, notified, prices, sweeps, signals, pending, cycle>>

Restart ==
    /\ pc = "down"
    /\ \E configured \in ConfiguredBalances :
         LET fresh == [balance |-> configured, positions |-> <<>>,
                       trades |-> <<>>, trade_counter |-> 0]
             a == load_state(state_file, fresh)
         IN  /\ initial_balance' = configured
             /\ balance' = a.balance
             /\ positions' = a.positions
             /\ trades' = a.trades
             /\ trade_counter' = a.trade_counter
    /\ pc' = "prices"
    /\ last' = Plain("restart")
    /\ UNCHANGED <<disk, notified, prices, sweeps, signals, pending, cycle>>

RestartNext ==
    \/ FeedSignals
    \/ ProcessSignal
    \/ BeginUpdate
    \/ UpdatePosition
    \/ EndCycle
    \/ KillProcess
    \/ KillInOpenSave
    \/ KillInCloseSave
    \/ Restart

RestartSpec == Init /\ [][RestartNext]_vars

---------------------------------------------------------------------------
(* The process started on a disk that holds any kind of file at the path   *)
(* of the snapshot, and then running cycles.                               *)

\* a snapshot save_state wrote: balance 900 and the position BTC BUY of
\* size 100 opened at 50000
SavedSnapshot ==
    LET pr == get_all_prices([s \in SymbolSet |->
                 IF s = "BTC" THEN [bid |-> 49990, ask |-> 50010]
                 ELSE NoQuote])
        fresh == [balance |-> Num(1000), positions |-> <<>>,
                  trades |-> <<>>, trade_counter |-> 0]
        opened == open_position(fresh, Signal("BTC", "BUY", 70, 100, pr), 0)
    IN  Snapshot(opened.acct, 0)

\* The files the disk may hold when the process is started: none, an empty
\* file, the beginning of a snapshot, an array, an object that has only
\* the member 'balance', an object that lacks only 'trade_counter', and a
\* snapshot save_state wrote.
DiskFiles ==
    { NoFile,
      Torn(SavedSnapshot, 0),
      Torn(SavedSnapshot, 2),
      NotAnObject,
      [balance |-> Num(900)],
      [balance |-> SavedSnapshot.balance,
       positions |-> SavedSnapshot.positions,
       trades |-> SavedSnapshot.trades,
       timestamp |-> SavedSnapshot.timestamp],
      SavedSnapshot }

\* No process yet (the account variables are assigned by the first start).
LoadInit ==
    /\ initial_balance \in InitialBalances
    /\ balance = initial_balance
    /\ positions = <<>>
    /\ trades = <<>>
    /\ trade_counter = 0
    /\ state_file \in DiskFiles
    /\ writes = 0
    /\ disk_faulty = FALSE
    /\ notified = 0
    /\ pc = "down"
    /\ prices = NoQuotes
    /\ sweeps = <<>>
    /\ signals = <<>>
    /\ pending = <<>>
    /\ cycle = 0
    /\ last = Plain("init")

LoadNext ==
    \/ Restart
    \/ FeedSignals
    \/ ProcessSignal
    \/ BeginUpdate
    \/ UpdatePosition
    \/ EndCycle

LoadSpec == LoadInit /\ [][LoadNext]_vars

---------------------------------------------------------------------------
(* run() interrupted by the operator.  KeyboardInterrupt is raised between *)
(* two steps of the loop or between two statements of open_position or     *)
(* close_position; nothing below run() catches it (the handlers of the     *)
(* methods are 'except Exception'), so the handler of lines 442-445 runs.  *)

\* open_position cut after n of its assignments of lines 243-245
OpenUpTo(a, position, n) ==
    IF n = 1
    THEN [a EXCEPT
            !.positions = DictSet(a.positions, position.symbol, position)]
    ELSE IF n = 2
    THEN [a EXCEPT
            !.positions = DictSet(a.positions, position.symbol, position),
            !.balance = RSub(a.balance, position.size)]
    ELSE StorePosition(a, position)

\* close_position cut after n of its assignments of lines 287, 303, 304
CloseUpTo(a, position, exit_price, reason, pnl_pct, now, n) ==
    IF n = 1
    THEN [a EXCEPT
            !.balance = RAdd(a.balance,
                             RAdd(position.size,
                                  PnlAmount(position.size, pnl_pct)))]
    ELSE IF n = 2
    THEN [a EXCEPT
            !.balance = RAdd(a.balance,
                             RAdd(position.size,
                                  PnlAmount(position.size, pnl_pct))),
            !.trades = Append(a.trades,
                              NewTrade(position, exit_price, reason,
                                       pnl_pct, now))]
    ELSE close_position(a, position, exit_price, reason, pnl_pct, now)

\* The interrupt arrives between two steps of the loop (the sleeps of lines
\* 414 and 440 included).
InterruptBetweenSteps ==
    /\ pc \in {"prices", "sweeps", "generate", "admit", "update"}
    /\ pc' = "interrupted"
    /\ prices' = NoQuotes
    /\ sweeps' = <<>>
    /\ signals' = <<>>
    /\ pending' = <<>>
    /\ last' = Plain("interrupt")
    /\ UNCHANGED <<account, disk, notified, cycle>>

\* The interrupt arrives within open_position, after 1, 2 or 3 of the
\* assignments of lines 243-245, or (4) within the save_state of line 256,
\* whose 'with' block closes the file on what was written.
InterruptInOpen ==
    /\ pc = "admit"
    /\ signals # <<>>
    /\ LET signal == Head(signals)
           r == open_position(Acct, signal, cycle)
       IN  /\ PassesConfidence(signal)
           /\ r.outcome = "opened"
           /\ \E n \in 1..4 :
                LET a == OpenUpTo(Acct, NewPosition(Acct, signal, cycle), n)
                IN  /\ balance' = a.balance
                    /\ positions' = a.positions
                    /\ trade_counter' = a.trade_counter
                    /\ IF n = 4
                       THEN /\ notified' = notified + 1
                            /\ writes' = writes + 1
                            /\ state_file' \in
                                  KillOutcomes(state_file,
                                               Snapshot(a, cycle))
                       ELSE UNCHANGED <<notified, writes, state_file>>
                    /\ last' = Did("interrupt", <<signal>>,
                                   <<DictGet(a.positions, signal.symbol)>>,
                                   <<>>,
                                   SubSeq(<<"store", "deduct", "count",
                                            "notify">>, 1, n),
                                   FALSE, n = 4)
    /\ pc' = "interrupted"
    /\ prices' = NoQuotes
    /\ sweeps' = <<>>
    /\ signals' = <<>>
    /\ pending' = <<>>
    /\ UNCHANGED <<initial_balance, trades, disk_faulty, cycle>>

\* The interrupt arrives within close_position, after 1, 2 or 3 of the
\* assignments of lines 287, 303 and 304, or (4) within the save_state of
\* line 316.
InterruptInClose ==
    /\ pc = "update"
    /\ pending # <<>>
    /\ InPrices(Head(pending).symbol, prices)
    /\ LET position == Head(pending)
           current_price == prices[position.symbol].mid
           pnl_pct == PnlPct(position, current_price)
           reason == CloseReason(pnl_pct)
       IN  /\ reason # "NONE"
           /\ \E n \in 1..4 :
                LET a == CloseUpTo(Acct, position, current_price, reason,
                                   pnl_pct, cycle, n)
                IN  /\ balance' = a.balance
                    /\ trades' = a.trades
                    /\ positions' = a.positions
                    /\ IF n = 4
                       THEN /\ notified' = notified + 1
                            /\ writes' = writes + 1
                            /\ state_file' \in
                                  KillOutcomes(state_file,
                                               Snapshot(a, cycle))
                       ELSE UNCHANGED <<notified, writes, state_file>>
                    /\ last' = Did("interrupt", <<>>, <<position>>,
                                   <<pnl_pct>>,
                                   SubSeq(<<"credit", "append", "delete",
                                            "notify">>, 1, n),
                                   FALSE, n = 4)
    /\ pc' = "interrupted"
    /\ prices' = NoQuotes
    /\ sweeps' = <<>>
    /\ signals' = <<>>
    /\ pending' = <<>>
    /\ UNCHANGED <<initial_balance, trade_counter, disk_faulty, cycle>>

\* Faulty variant: the handler without the save_state of line 445
HandleInterruptSummaryOnly ==
    /\ pc = "interrupted"
    /\ pc' = "stopped"
    /\ last' = Did("stopped", <<>>, <<>>, <<>>, <<"summary">>, FALSE, FALSE)
    /\ UNCHANGED <<account, disk, notified, prices, sweeps, signals,
                   pending, cycle>>

\* Lines 442-445: the handler fetches the quotes, prints the summary
\* (which divides by initial_balance, line 378, and reads the rest) and
\* calls save_state; run() returns.
HandleInterrupt ==
    /\ pc = "interrupted"
    /\ \E books \in BookMaps, saved \in SaveOutcomes :
         IF initial_balance = Num(0)
         THEN /\ last' = Did("stopped", <<>>, <<>>, <<>>, <<>>, FALSE, FALSE)
              /\ UNCHANGED <<state_file, writes>>
         ELSE /\ state_file' = save_state(state_file, Acct, cycle, saved)
              /\ writes' = writes + 1
              /\ last' = Did("stopped", <<>>, <<>>, <<>>,
                             <<"summary", "save">>, saved = "written",
                             FALSE)
    /\ pc' = "stopped"
    /\ UNCHANGED <<account, disk_faulty, notified, prices, sweeps, signals,
                   pending, cycle>>

InterruptNext ==
    \/ GetAllPrices
    \/ FetchMoondevSweeps
    \/ GenerateSignals
    \/ ProcessSignal
    \/ BeginUpdate
    \/ UpdatePosition
    \/ EndCycle
    \/ InterruptBetweenSteps
    \/ InterruptInOpen
    \/ InterruptInClose
    \/ HandleInterrupt

InterruptSpec == Init /\ [][InterruptNext]_vars

---------------------------------------------------------------------------
(* generate_signals applied to drawn inputs: a batch of sweeps, a quote    *)
(* map and a balance are drawn, and step 3 of run() generates the signals. *)

\* greatest length of a drawn batch
MaxBatch == 3

\* a market naming two tracked symbols, ETH before BTC
EthBtc == <<"E", "T", "H", "B", "T", "C">>

\* The sweeps a drawn batch is made of.
SignalSweeps ==
    { Sweep("T2", EthPerp, "SELL", 60000, 1500),
      Sweep("T2", BtcPerp, "BUY", 49999, 5000),
      Sweep("T2", BtcPerp, "SELL", 95000, 1000),
      Sweep("T2", SolLower, "BUY", 95000, 2000),
      Sweep("T1", EthBtc, "BUY", 50000, 1001),
      Sweep("T1", SolLower, "SELL", 12000, 10),
      Sweep("T1", Doge, "BUY", 10000, 10),
      Sweep("T1", EthLower, "BUY", 50, 1),
      Sweep("T2", Doge, "SELL", 9999, 10),
      Sweep(NoKey, EthPerp, "BUY", 12000, 10) }

SignalBatches == UNION { [1..n -> SignalSweeps] : n \in 0..MaxBatch }

\* one order book per symbol: mids 1000.5, 1500 and 3
SignalBook(s) ==
    CASE s = "BTC" -> [bid |-> 1000, ask |-> 1001]
      [] s = "ETH" -> [bid |-> 1499, ask |-> 1501]
      [] s = "SOL" -> [bid |-> 2, ask |-> 4]

\* the answers of the exchange that quote at least one symbol (run() goes
\* on to step 3 only with a non-empty quote map)
SignalBookMaps ==
    { [s \in SymbolSet |-> IF s \in quoted THEN SignalBook(s) ELSE NoQuote] :
        quoted \in (SUBSET SymbolSet) \ {{}} }

\* initial_balance given to the constructor: 15% of it is the cap 150,
\* less than the cap, more than the cap
SignalBalances == {Num(1000), Num(100), Num(20000)}

\* run() at step 3 of its first cycle, after __init__ with no snapshot on
\* disk, with the quotes and the sweeps the two fetches returned
SignalInit ==
    /\ initial_balance \in SignalBalances
    /\ balance = initial_balance
    /\ positions = <<>>
    /\ trades = <<>>
    /\ trade_counter = 0
    /\ state_file = NoFile
    /\ writes = 0
    /\ disk_faulty = FALSE
    /\ notified = 0
    /\ pc = "generate"
    /\ prices \in {get_all_prices(books) : books \in SignalBookMaps}
    /\ sweeps \in SignalBatches
    /\ signals = <<>>
    /\ pending = <<>>
    /\ cycle = 1
    /\ last = Plain("sweeps")

SignalNext == GenerateSignals

SignalSpec == SignalInit /\ [][SignalNext]_vars

---------------------------------------------------------------------------
(* Properties.                                                             *)

RECURSIVE SumSizes(_)
SumSizes(ps) ==
    IF ps = <<>> THEN Num(0) ELSE RAdd(Head(ps).size, SumSizes(Tail(ps)))

RECURSIVE SumPnl(_)
SumPnl(ts) ==
    IF ts = <<>> THEN Num(0) ELSE RAdd(Head(ts).pnl_amount, SumPnl(Tail(ts)))

\* The directional P&L in percent as the specification states it:
\* BUY (current - entry) / entry * 100, SELL (entry - current) / entry * 100.
StatedPnlPct(side, entry, current) ==
    IF side = "BUY"
    THEN RMul(RDiv(RSub(current, entry), entry), Num(100))
    ELSE RMul(RDiv(RSub(entry, current), entry), Num(100))

\* The step about to be taken processes a signal / evaluates a position.
AtSignal == pc = "admit" /\ signals # <<>>
AtQuotedPosition ==
    pc = "update" /\ pending # <<>> /\ InPrices(Head(pending).symbol, prices)

\* A step opened a position / closed one.
Admitted == trade_counter' # trade_counter \/ Len(positions') > Len(positions)
Closed == Len(trades') # Len(trades) \/ Len(positions') < Len(positions)

\* C1: at most one open position per tracked symbol: the keys of the open
\* positions are distinct, and no step stores another position for a symbol
\* that has one (the stored position stays as it is until it is removed).
C1_OnePositionPerSymbol ==
    [][ /\ \A i, j \in 1..Len(positions') :
              positions'[i].symbol = positions'[j].symbol => i = j
        /\ \A i \in 1..Len(positions) :
              HasKey(positions', positions[i].symbol)
                 => DictGet(positions', positions[i].symbol) = positions[i]
      ]_vars

\* C1 witness: a signal for a symbol that has an open position was processed.
C1_Witness ==
    /\ last.op = "duplicate"
    /\ HasKey(positions, last.signal[1].symbol)

\* C2: balance plus the sizes of the open positions equals the initial
\* balance plus the realized P&L of the recorded trades.
C2_EscrowConservation ==
    RAdd(balance, SumSizes(positions)) = RAdd(initial_balance, SumPnl(trades))

\* C2 witness: a trade with a non-zero P&L is recorded while a position is open.
C2_Witness ==
    /\ Len(positions) >= 1
    /\ Len(trades) >= 1
    /\ SumPnl(trades) # Num(0)

\* C3: a position evaluated against a quote closes as TAKE_PROFIT iff
\* pnlPct >= 0.6, else as STOP_LOSS iff pnlPct <= -3, else stays open.
C3_CloseDecision ==
    [][ AtQuotedPosition =>
          LET p == Head(pending)
              pct == StatedPnlPct(p.side, p.entry_price, prices[p.symbol].mid)
              closes(r) ==
                  /\ ~HasKey(positions', p.symbol)
                  /\ Len(trades') = Len(trades) + 1
                  /\ trades'[Len(trades')].id = p.id
                  /\ trades'[Len(trades')].reason = r
          IN  IF RGe(pct, Rat(6, 10)) THEN closes("TAKE_PROFIT")
              ELSE IF RLe(pct, Num(-3)) THEN closes("STOP_LOSS")
              ELSE positions' = positions /\ trades' = trades
      ]_vars

\* C3 witness: one position closed at exactly +0.6% and one at exactly -3%.
C3_Witness ==
    \E i, j \in 1..Len(trades) :
        /\ trades[i].reason = "TAKE_PROFIT" /\ trades[i].pnl_pct = Rat(6, 10)
        /\ trades[j].reason = "STOP_LOSS" /\ trades[j].pnl_pct = Num(-3)

\* C4: a close credits size + size * pnlPct / 100, appends exactly one trade
\* with the position's id, entry, exit, size, P&L and reason, and removes
\* the position.
C4_CloseEffect ==
    [][ Closed =>
          /\ AtQuotedPosition
          /\ LET p == Head(pending)
                 exit == prices[p.symbol].mid
                 pct == StatedPnlPct(p.side, p.entry_price, exit)
                 pnl == RDiv(RMul(p.size, pct), Num(100))
                 t == trades'[Len(trades')]
             IN  /\ HasKey(positions, p.symbol)
                 /\ DictGet(positions, p.symbol) = p
                 /\ balance' = RAdd(RAdd(balance, p.size), pnl)
                 /\ trades' = Append(trades, t)
                 /\ t.id = p.id /\ t.symbol = p.symbol /\ t.side = p.side
                 /\ t.entry_price = p.entry_price
                 /\ t.exit_price = exit
                 /\ t.size = p.size
                 /\ t.pnl_pct = pct
                 /\ t.pnl_amount = pnl
                 /\ t.reason \in {"TAKE_PROFIT", "STOP_LOSS"}
                 /\ t.reason = "TAKE_PROFIT" <=> RGe(pct, Rat(6, 10))
                 /\ positions' = SelectSeq(positions, LAMBDA q : q # p)
                 /\ ~HasKey(positions', p.symbol)
                 /\ trade_counter' = trade_counter
      ]_vars

\* C4 witness (scenario B): size 100 opened at 50000 closed at 50310 as
\* TAKE_PROFIT, balance 1000.62.
C4_Witness ==
    /\ balance = Rat(100062, 100)
    /\ positions = <<>>
    /\ Len(trades) = 1
    /\ trades[1].reason = "TAKE_PROFIT"
    /\ trades[1].entry_price = Num(50000)
    /\ trades[1].exit_price = Num(50310)
    /\ trades[1].size = Num(100)
    /\ trades[1].pnl_amount = Rat(62, 100)

\* C5: an admission deducts the signal's size from the balance, stores a
\* position for the signal's symbol with the signal's price, side and size,
\* and increases the trade counter by exactly 1.
C5_AdmissionEffect ==
    [][ Admitted =>
          /\ AtSignal
          /\ LET sg == Head(signals)
             IN  /\ balance' = RSub(balance, sg.size)
                 /\ ~HasKey(positions, sg.symbol)
                 /\ Len(positions') = Len(positions) + 1
                 /\ \A i \in 1..Len(positions) : positions'[i] = positions[i]
                 /\ positions'[Len(positions')].symbol = sg.symbol
                 /\ positions'[Len(positions')].entry_price = sg.price
                 /\ positions'[Len(positions')].side = sg.side
                 /\ positions'[Len(positions')].size = sg.size
                 /\ trade_counter' = trade_counter + 1
                 /\ trades' = trades
      ]_vars

\* C5 witness (scenario A): balance 1000, BUY of size 100 with confidence 70
\* at 50000: the position is open and the balance is 900.
C5_Witness ==
    /\ balance = Num(900)
    /\ trade_counter = 1
    /\ Len(positions) = 1
    /\ positions[1].symbol = "BTC"
    /\ positions[1].side = "BUY"
    /\ positions[1].size = Num(100)
    /\ positions[1].confidence = Num(70)
    /\ positions[1].entry_price = Num(50000)

\* C6 (as claimed): no position is ever open with a size below the floor 10.
C6_MinimumFloor ==
    \A i \in 1..Len(positions) : RGe(positions[i].size, Num(10))

\* C7: a signal with confidence < 60 leaves the account unchanged; the bound
\* is inclusive: a signal with confidence >= 60 on a symbol without position
\* and with size <= balance is admitted.
C7_ConfidenceGate ==
    [][ AtSignal =>
          LET sg == Head(signals)
          IN  /\ RLt(sg.confidence, Num(60)) =>
                    UNCHANGED <<balance, positions, trades, trade_counter>>
              /\ ( /\ RGe(sg.confidence, Num(60))
                   /\ ~HasKey(positions, sg.symbol)
                   /\ RLe(sg.size, balance) )
                 => /\ HasKey(positions', sg.symbol)
                    /\ DictGet(positions', sg.symbol).confidence
                          = sg.confidence
      ]_vars

\* C7 witness: a signal of confidence exactly 60 was admitted, and a signal
\* below 60 has just been dropped at the gate.
C7_Witness ==
    /\ \E i \in 1..Len(positions) : positions[i].confidence = Num(60)
    /\ last.op = "gated"
    /\ RLt(last.signal[1].confidence, Num(60))

\* C8: a signal with size > balance changes nothing (account, snapshot file,
\* notifications); a signal with size = balance is not rejected for its size.
C8_InsufficientBalance ==
    [][ AtSignal =>
          LET sg == Head(signals)
          IN  /\ RGt(sg.size, balance) =>
                    UNCHANGED <<balance, positions, trades, trade_counter,
                                state_file, writes, notified>>
              /\ ( /\ sg.size = balance
                   /\ RGe(sg.confidence, Num(60))
                   /\ ~HasKey(positions, sg.symbol) )
                 => /\ HasKey(positions', sg.symbol)
                    /\ balance' = Num(0)
      ]_vars

\* C8 witness: a signal whose size equalled the balance was admitted.
C8_Witness ==
    /\ last.op = "opened"
    /\ balance = Num(0)
    /\ last.signal[1].size = Num(900)
    /\ HasKey(positions, "ETH")

\* C9: once a signal of this cycle was admitted for a symbol, every later
\* signal of the cycle for that symbol leaves the account, the snapshot and
\* the notifications unchanged (the position keeps the first signal's data).
C9_FirstSignalWins ==
    [][ ( /\ AtSignal
          /\ \E i \in 1..Len(positions) :
                /\ positions[i].symbol = Head(signals).symbol
                /\ positions[i].opened_at = cycle )
        => UNCHANGED <<balance, positions, trades, trade_counter,
                       state_file, writes, notified>>
      ]_vars

\* C9 witness: a later signal of the cycle, of the other side, was rejected
\* as duplicate of the position opened in this cycle.
C9_Witness ==
    /\ last.op = "duplicate"
    /\ \E i \in 1..Len(positions) :
          /\ positions[i].symbol = last.signal[1].symbol
          /\ positions[i].opened_at = cycle
          /\ positions[i].side # last.signal[1].side
          /\ RGe(last.signal[1].confidence, Num(60))
          /\ RLe(last.signal[1].size, balance)

\* C10: the stored tp/sl prices are the stated function of the stored entry
\* price and side: BUY entry*(1+0.6/100), entry*(1-3/100); SELL
\* entry*(1-0.6/100), entry*(1+3/100).
C10_TpSlDerivation ==
    \A i \in 1..Len(positions) :
        LET p == positions[i]
            e == p.entry_price
        IN  IF p.side = "BUY"
            THEN /\ p.tp_price = RMul(e, RAdd(Num(1), Rat(6, 1000)))
                 /\ p.sl_price = RMul(e, RSub(Num(1), Rat(3, 100)))
            ELSE /\ p.tp_price = RMul(e, RSub(Num(1), Rat(6, 1000)))
                 /\ p.sl_price = RMul(e, RAdd(Num(1), Rat(3, 100)))

\* C10 witness: a BUY at 50000 stored with 50300 and 48500, and a SELL open.
C10_Witness ==
    /\ \E i \in 1..Len(positions) :
          /\ positions[i].side = "BUY"
          /\ positions[i].entry_price = Num(50000)
          /\ positions[i].tp_price = Num(50300)
          /\ positions[i].sl_price = Num(48500)
    /\ \E i \in 1..Len(positions) : positions[i].side = "SELL"

\* C11: evaluating an open position whose symbol has no quote in this cycle
\* changes nothing (same position record, no trade, no balance change, no
\* save, no notification); update_positions visits every open position in
\* every cycle, and a visited position that has a quote and is still open
\* was evaluated against it (its P&L lies strictly between -3% and +0.6%).
C11_NoQuoteCarryOver ==
    [][ /\ ( /\ pc = "update" /\ pending # <<>>
             /\ ~InPrices(Head(pending).symbol, prices) )
           => /\ UNCHANGED <<balance, initial_balance, positions, trades,
                             trade_counter, state_file, writes, notified>>
              /\ DictGet(positions', Head(pending).symbol) = Head(pending)
        /\ (pc = "admit" /\ pc' = "update") => pending' = positions
        /\ pc = "update" =>
              \A i \in 1..Len(positions) :
                 LET p == positions[i]
                     visited == \A k \in 1..Len(pending) : pending[k] # p
                 IN  (visited /\ InPrices(p.symbol, prices)) =>
                       LET pct == StatedPnlPct(p.side, p.entry_price,
                                               prices[p.symbol].mid)
                       IN  RLt(pct, Rat(6, 10)) /\ RGt(pct, Num(-3))
      ]_vars

\* C11 witness: in the cycle after the one that opened it, a position found
\* no quote for its symbol and is still open as it was stored, with the
\* snapshot written when it was opened.
C11_Witness ==
    /\ last.op = "no_quote"
    /\ cycle = last.position[1].opened_at + 1
    /\ HasKey(positions, last.position[1].symbol)
    /\ DictGet(positions, last.position[1].symbol) = last.position[1]
    /\ state_file # NoFile
    /\ state_file.timestamp = last.position[1].opened_at
    /\ state_file.positions = positions

\* The tracked symbol an event's market resolves to, as stated: the first
\* symbol in tracked order that occurs in the market string, compared
\* without regard to case; "" when there is none.
StatedSymbol(market) ==
    LET idx == {i \in 1..Len(symbols) :
                  Contains(Upper(SymbolChars(symbols[i])), Upper(market))}
    IN  IF idx = {} THEN ""
        ELSE symbols[CHOOSE i \in idx : \A j \in idx : i <= j]

\* An event that resolves to a tracked symbol with a quote.
Eligible(e, pr) ==
    /\ StatedSymbol(e.market) # ""
    /\ InPrices(StatedSymbol(e.market), pr)

\* The liquidation signals / the whale signals of a sequence of signals.
IsLiq(sg) == sg.reason[1] = "Large liquidation"
IsWhale(sg) == sg.reason[1] = "Whale"
LiqOf(sigs) == SelectSeq(sigs, IsLiq)
WhaleOf(sigs) == SelectSeq(sigs, IsWhale)

\* The eligible events of a batch that meet the stated liquidation rule.
StatedLiqEvents(batch, pr) ==
    SelectSeq(batch, LAMBDA e : /\ Eligible(e, pr)
                                /\ e.usd_amount >= 50000
                                /\ e.size > 1000)

\* C12: the liquidation signals generated from a batch are, in order, one
\* for each eligible event with usdAmount >= 50000 and size > 1000, and no
\* other: none for an event with usdAmount < 50000, none for an event with
\* size = 1000.
C12_LiquidationRule ==
    [][ pc = "generate" =>
          LET ev == StatedLiqEvents(sweeps, prices)
              lq == LiqOf(signals')
          IN  /\ Len(lq) = Len(ev)
              /\ \A k \in 1..Len(lq) :
                    /\ lq[k].reason[2] = ev[k].usd_amount
                    /\ lq[k].symbol = StatedSymbol(ev[k].market)
      ]_vars

\* C12 witness: a batch of three eligible events, one of usdAmount 95000 and
\* size exactly 1000, one of usdAmount 49999 and size 5000, one of usdAmount
\* 50000 and size 1001, has generated exactly one liquidation signal.
C12_Witness ==
    /\ pc = "admit"
    /\ last.op = "generate"
    /\ Len(last.batch) = 3
    /\ \E i, j, k \in 1..3 :
          /\ last.batch[i].usd_amount = 95000 /\ last.batch[i].size = 1000
          /\ last.batch[j].usd_amount = 49999 /\ last.batch[j].size = 5000
          /\ last.batch[k].usd_amount = 50000 /\ last.batch[k].size = 1001
    /\ InPrices("BTC", prices)
    /\ Len(LiqOf(signals)) = 1
    /\ LiqOf(signals)[1].reason[2] = 50000

\* C13: each liquidation signal has the side opposite to its event's side,
\* confidencePct = min(usdAmount / 100000, 0.9) * 100, and as price the mid
\* (bid + ask) / 2 of this cycle's quote of the symbol the event resolves to.
C13_LiquidationSignal ==
    [][ pc = "generate" =>
          LET ev == StatedLiqEvents(sweeps, prices)
              lq == LiqOf(signals')
          IN  /\ Len(lq) = Len(ev)
              /\ \A k \in 1..Len(lq) :
                    LET ratio == Rat(ev[k].usd_amount, 100000)
                        quote == prices[StatedSymbol(ev[k].market)]
                    IN  /\ ev[k].side = "SELL" => lq[k].side = "BUY"
                        /\ ev[k].side = "BUY" => lq[k].side = "SELL"
                        /\ lq[k].confidence =
                              IF RLt(ratio, Rat(9, 10))
                              THEN RMul(ratio, Num(100)) ELSE Num(90)
                        /\ lq[k].price =
                              RDiv(RAdd(quote.bid, quote.ask), Num(2))
      ]_vars

\* C13 witness (scenario C): the sweep ETH-PERP SELL 60000 of size 1500 has
\* generated an ETH BUY signal of confidence 60 at the ETH mid 1500, and in
\* the same batch a BUY sweep of 95000 a SELL signal of confidence 90.
C13_Witness ==
    /\ pc = "admit"
    /\ last.op = "generate"
    /\ \E i \in 1..Len(last.batch) :
          last.batch[i] = Sweep("T2", EthPerp, "SELL", 60000, 1500)
    /\ \E k \in 1..Len(signals) :
          /\ IsLiq(signals[k])
          /\ signals[k].symbol = "ETH"
          /\ signals[k].side = "BUY"
          /\ signals[k].confidence = Num(60)
          /\ signals[k].price = Num(1500)
    /\ \E k \in 1..Len(signals) :
          /\ IsLiq(signals[k])
          /\ signals[k].side = "SELL"
          /\ signals[k].confidence = Num(90)

\* The number of events of a batch by the given trader with usdAmount >=
\* 10000.
LargeEventsBy(batch, trader) ==
    Cardinality({i \in 1..Len(batch) :
                    batch[i].trader = trader /\ batch[i].usd_amount >= 10000})

\* The eligible events of a batch whose (named) trader has at least two
\* events of usdAmount >= 10000 in the batch.
StatedWhaleEvents(batch, pr) ==
    SelectSeq(batch, LAMBDA e : /\ Eligible(e, pr)
                                /\ e.trader # NoKey
                                /\ LargeEventsBy(batch, e.trader) >= 2)

\* C14: the whale signals generated from a batch are, in order, one for
\* each eligible event whose trader has at least two events of usdAmount
\* >= 10000 in the batch, and no other; each carries its event's symbol and
\* side and confidencePct 75.
C14_WhaleRule ==
    [][ pc = "generate" =>
          LET ev == StatedWhaleEvents(sweeps, prices)
              wh == WhaleOf(signals')
          IN  /\ Len(wh) = Len(ev)
              /\ \A k \in 1..Len(wh) :
                    /\ wh[k].reason[2] = ev[k].trader
                    /\ wh[k].symbol = StatedSymbol(ev[k].market)
                    /\ wh[k].side = ev[k].side
                    /\ wh[k].confidence = Num(75)
      ]_vars

\* C14 witness (scenario D): a batch of two sweeps of 12000 each from T1
\* has generated whale signals of confidence 75 with the side of the sweeps.
C14_Witness ==
    /\ pc = "admit"
    /\ last.op = "generate"
    /\ last.batch = << Sweep("T1", SolLower, "SELL", 12000, 10),
                       Sweep("T1", SolLower, "SELL", 12000, 10) >>
    /\ Len(signals) = 2
    /\ \A k \in 1..2 :
          /\ IsWhale(signals[k])
          /\ signals[k].symbol = "SOL"
          /\ signals[k].side = "SELL"
          /\ signals[k].confidence = Num(75)

\* m is the least of a, b and c.
IsMin3(m, a, b, c) ==
    /\ m \in {a, b, c}
    /\ RLe(m, a) /\ RLe(m, b) /\ RLe(m, c)

\* C15: a liquidation signal's size is min(usdAmount * 0.01, balance *
\* 0.15, 150) and a whale signal's size is min(usdAmount * 0.1, balance *
\* 0.15, 150), with the balance at generation time; every generated signal
\* has size <= 150 and size <= 15% of that balance.
C15_SignalSizing ==
    [][ pc = "generate" =>
          LET lev == StatedLiqEvents(sweeps, prices)
              lq == LiqOf(signals')
              wev == StatedWhaleEvents(sweeps, prices)
              wh == WhaleOf(signals')
              share == RMul(balance, Rat(15, 100))
          IN  /\ Len(lq) = Len(lev) /\ Len(wh) = Len(wev)
              /\ \A k \in 1..Len(lq) :
                    IsMin3(lq[k].size,
                           RMul(Num(lev[k].usd_amount), Rat(1, 100)),
                           share, Num(150))
              /\ \A k \in 1..Len(wh) :
                    IsMin3(wh[k].size,
                           RMul(Num(wev[k].usd_amount), Rat(1, 10)),
                           share, Num(150))
              /\ \A k \in 1..Len(signals') :
                    /\ RLe(signals'[k].size, Num(150))
                    /\ RLe(signals'[k].size, share)
      ]_vars

\* C15 witness: with balance 100, a liquidation signal of size 15 (15% of
\* the balance, below 1% of 50000 and below the cap) and a whale signal of
\* size 5 (10% of the event's 50, below 15% of the balance).
C15_Witness ==
    /\ pc = "admit"
    /\ last.op = "generate"
    /\ balance = Num(100)
    /\ \E k \in 1..Len(signals) :
          /\ IsLiq(signals[k])
          /\ signals[k].reason[2] = 50000
          /\ signals[k].size = Num(15)
    /\ \E k \in 1..Len(signals) :
          /\ IsWhale(signals[k])
          /\ signals[k].size = Num(5)

\* C16: every generated signal is for the symbol its event resolves to (the
\* first tracked symbol, in tracked order, that occurs in the market string
\* without regard to case), which has a quote; the events that resolve to
\* no tracked symbol or to a symbol without quote contribute no signal.
C16_SymbolResolution ==
    [][ pc = "generate" =>
          LET lev == StatedLiqEvents(sweeps, prices)
              lq == LiqOf(signals')
              wev == StatedWhaleEvents(sweeps, prices)
              wh == WhaleOf(signals')
          IN  /\ Len(signals') = Len(lev) + Len(wev)
              /\ Len(lq) = Len(lev) /\ Len(wh) = Len(wev)
              /\ \A k \in 1..Len(lq) :
                    lq[k].symbol = StatedSymbol(lev[k].market)
              /\ \A k \in 1..Len(wh) :
                    wh[k].symbol = StatedSymbol(wev[k].market)
              /\ \A k \in 1..Len(signals') :
                    InPrices(signals'[k].symbol, prices)
              /\ (\A i \in 1..Len(sweeps) : ~Eligible(sweeps[i], prices))
                    => signals' = <<>>
      ]_vars

\* C16 witness: with BTC and SOL quoted and ETH not, the batch of an
\* "ETHBTC" sweep, a "sol-perp" sweep and an "eth-perp" sweep of one whale
\* has generated signals for BTC (liquidation and whale) and SOL, in this
\* order, and none for ETH.
C16_Witness ==
    /\ pc = "admit"
    /\ last.op = "generate"
    /\ last.batch = << Sweep("T1", EthBtc, "BUY", 50000, 1001),
                       Sweep("T1", SolLower, "SELL", 12000, 10),
                       Sweep("T1", EthLower, "BUY", 50, 1) >>
    /\ InPrices("BTC", prices) /\ InPrices("SOL", prices)
    /\ ~InPrices("ETH", prices)
    /\ Len(signals) = 3
    /\ signals[1].symbol = "BTC" /\ IsLiq(signals[1])
    /\ signals[2].symbol = "BTC" /\ IsWhale(signals[2])
    /\ signals[3].symbol = "SOL" /\ IsWhale(signals[3])

\* The snapshot on disk holds the in-memory account (with no file on disk,
\* the account is as constructed and nothing was written).
FileHoldsAccount ==
    IF state_file = NoFile
    THEN /\ writes = 0
         /\ balance = initial_balance /\ positions = <<>>
         /\ trades = <<>> /\ trade_counter = 0
    ELSE /\ state_file.balance = balance
         /\ state_file.positions = positions
         /\ state_file.trades = trades
         /\ state_file.trade_counter = trade_counter

\* C17: every step that opens or closes a position writes, in that step,
\* one snapshot holding the account the step leaves; no other step writes;
\* so at the end of every cycle the snapshot on disk holds the in-memory
\* account, and a cycle without admission and close writes nothing.
C17_SaveAfterMutation ==
    [][ /\ (Admitted \/ Closed) =>
              /\ writes' = writes + 1
              /\ state_file' # NoFile
              /\ state_file'.balance = balance'
              /\ state_file'.positions = positions'
              /\ state_file'.trades = trades'
              /\ state_file'.trade_counter = trade_counter'
        /\ ~(Admitted \/ Closed) =>
              /\ UNCHANGED <<state_file, writes>>
              /\ UNCHANGED <<balance, positions, trades, trade_counter>>
        /\ (pc = "update" /\ pc' = "prices") => FileHoldsAccount
      ]_vars

\* C17 witness: at the end of a cycle that opened a position and then
\* closed another, two snapshots were written in the cycle and the file
\* holds the account (one open position, one trade).
C17_Witness ==
    /\ last.op = "end_cycle"
    /\ \E i \in 1..Len(positions) : positions[i].opened_at = cycle
    /\ \E i \in 1..Len(trades) : trades[i].closed_at = cycle
    /\ writes = 3
    /\ state_file # NoFile
    /\ state_file.timestamp = cycle
    /\ state_file.positions = positions
    /\ state_file.trades = trades
    /\ state_file.balance = balance
    /\ state_file.trade_counter = trade_counter

\* C18 (as claimed): whenever the process is down, the snapshot file is
\* absent or a complete document.
C18_AtomicSave == pc = "down" => ~IsTorn(state_file)

\* C19 (as claimed): when the snapshot on disk is the one save wrote for
\* the account in memory and the process is started again, the account
\* load restores equals that account in balance, initial balance, open
\* positions, trades and trade counter.
C19_SaveLoadRoundTrip ==
    [][ ( /\ pc = "down" /\ pc' = "prices"
          /\ state_file # NoFile /\ ~IsTorn(state_file)
          /\ state_file.balance = balance
          /\ state_file.positions = positions
          /\ state_file.trades = trades
          /\ state_file.trade_counter = trade_counter )
        => /\ balance' = balance
           /\ initial_balance' = initial_balance
           /\ positions' = positions
           /\ trades' = trades
           /\ trade_counter' = trade_counter
      ]_vars

\* C20: the step that ends run() after an interrupt performs one save and
\* changes nothing in memory, so the snapshot on disk after termination
\* holds the balance, positions, trades and trade counter of the account
\* in memory at termination.
C20_FinalSaveOnInterrupt ==
    [][ pc' = "stopped" =>
          /\ pc = "interrupted" => writes' = writes + 1
          /\ pc = "interrupted" =>
                UNCHANGED <<balance, initial_balance, positions, trades,
                            trade_counter>>
          /\ state_file' # NoFile
          /\ ~IsTorn(state_file')
          /\ state_file'.balance = balance'
          /\ state_file'.positions = positions'
          /\ state_file'.trades = trades'
          /\ state_file'.trade_counter = trade_counter'
      ]_vars

\* C20 witness: the interrupt arrived in open_position after the position
\* was stored and before the balance was deducted; run() has ended, and the
\* snapshot holds the account as the interrupt left it.
C20_Witness ==
    /\ pc = "stopped"
    /\ Len(positions) = 1
    /\ balance = initial_balance
    /\ trade_counter = 0
    /\ state_file # NoFile
    /\ ~IsTorn(state_file)
    /\ state_file.positions = positions
    /\ state_file.balance = balance
    /\ state_file.trade_counter = 0
    /\ writes = 1

---------------------------------------------------------------------------
(* Start-up: load_state on the files the disk may hold.                    *)

\* a file that exists and is no snapshot: a document without its end, a
\* JSON value that is no object, or an object lacking one of the members
\* save_state writes for the account
Malformed(file) ==
    /\ file # NoFile
    /\ \/ IsTorn(file)
       \/ ~IsObject(file)
       \/ \E k \in {"balance", "positions", "trades", "trade_counter"} :
             k \notin DOMAIN file

\* the step in which a process is constructed and run() entered
Started == pc = "down" /\ pc' # "down"

DefaultAccount ==
    /\ balance = initial_balance
    /\ positions = <<>>
    /\ trades = <<>>
    /\ trade_counter = 0

\* C21: a start on a snapshot file that is malformed enters the loop with
\* exactly the default account: the configured balance, no positions, no
\* trades, trade counter 0, and no member of the file in it.
C21_MalformedGivesDefaults ==
    [][ (Started /\ Malformed(state_file))
        => /\ pc' = "prices"
           /\ initial_balance' \in ConfiguredBalances
           /\ DefaultAccount'
      ]_vars

\* C22: a start with no snapshot file enters the loop with the balance the
\* process was configured with, no positions, no trades and trade counter 0.
C22_NoSnapshotGivesDefaults ==
    [][ (Started /\ state_file = NoFile)
        => /\ pc' = "prices"
           /\ initial_balance' \in ConfiguredBalances
           /\ DefaultAccount'
      ]_vars

\* C22 witness: started without a file and configured with 500, the
\* process is in its loop with balance 500 and an empty account.
C22_Witness ==
    /\ last.op = "restart"
    /\ pc = "prices"
    /\ state_file = NoFile
    /\ initial_balance = Num(500)
    /\ balance = Num(500)
    /\ positions = <<>>
    /\ trades = <<>>
    /\ trade_counter = 0

---------------------------------------------------------------------------
(* Writes that fail.                                                       *)

\* C23: a step that opens or closes a position changes the account in
\* memory in full whether its write succeeds or fails, and the cycle goes
\* on with the next signal or position; a write that fails leaves the file
\* as it was or cut short; every write that succeeds, also after failed
\* ones, leaves a snapshot holding the whole account in memory.
C23_FailedWriteIsNotFatal ==
    [][ /\ Admitted =>
              /\ Len(positions') = Len(positions) + 1
              /\ balance' = RSub(balance, positions'[Len(positions')].size)
              /\ trade_counter' = trade_counter + 1
              /\ trades' = trades
              /\ signals' = Tail(signals)
        /\ Closed =>
              /\ Len(positions') = Len(positions) - 1
              /\ Len(trades') = Len(trades) + 1
              /\ balance' = RAdd(balance,
                                 RAdd(Head(pending).size,
                                      trades'[Len(trades')].pnl_amount))
              /\ pending' = Tail(pending)
        /\ (Admitted \/ Closed) =>
              /\ pc' = pc
              /\ writes' = writes + 1
              /\ IF last'.saved
                 THEN /\ state_file' # NoFile
                      /\ ~IsTorn(state_file')
                      /\ state_file'.balance = balance'
                      /\ state_file'.positions = positions'
                      /\ state_file'.trades = trades'
                      /\ state_file'.trade_counter = trade_counter'
                 ELSE \/ state_file' = state_file
                      \/ IsTorn(state_file')
      ]_vars

\* C23 witness: the write that ended the close of a position failed after
\* an earlier write had failed too (the file is cut short); the trade is in
\* memory, the balance credited, and the evaluation pass goes on; TLC then
\* follows the run to the next write that succeeds.
C23_Witness ==
    /\ last.op = "closed"
    /\ ~last.saved
    /\ IsTorn(state_file)
    /\ writes >= 2
    /\ Len(trades) = 1
    /\ pc = "update"

---------------------------------------------------------------------------
(* Sources that fail.                                                      *)

\* C24: the quotes of a cycle hold exactly the symbols whose fetch
\* succeeded, each with the bid, ask and mid of its answer, whatever
\* happened to the other fetches; with one quote or more the cycle goes on,
\* the quotes stay as fetched until the cycle ends, every event of the
\* batch that meets the liquidation rule on a quoted symbol yields its
\* signal, and every open position on a quoted symbol is evaluated against
\* the mid of that quote.
C24_PartialQuoteFailure ==
    [][ /\ (pc = "prices" /\ cycle' # cycle) =>
              /\ \A s \in SymbolSet :
                    IF last'.books[s] = NoQuote
                    THEN ~InPrices(s, prices')
                    ELSE /\ InPrices(s, prices')
                         /\ prices'[s].bid = Num(last'.books[s].bid)
                         /\ prices'[s].ask = Num(last'.books[s].ask)
                         /\ prices'[s].mid =
                               RDiv(Num(last'.books[s].bid
                                        + last'.books[s].ask), Num(2))
              /\ (\E s \in SymbolSet : last'.books[s] # NoQuote)
                    => pc' = "sweeps"
        /\ (pc \in {"sweeps", "generate", "admit"}
              \/ (pc = "update" /\ pending # <<>>)) => prices' = prices
        /\ pc = "generate" =>
              \A k \in 1..Len(sweeps) :
                 ( /\ Eligible(sweeps[k], prices)
                   /\ sweeps[k].usd_amount >= 50000
                   /\ sweeps[k].size > 1000 )
                 => \E i \in 1..Len(signals') :
                       /\ signals'[i].symbol = StatedSymbol(sweeps[k].market)
                       /\ signals'[i].price
                             = prices[StatedSymbol(sweeps[k].market)].mid
        /\ AtQuotedPosition =>
              /\ last'.op \in {"hold", "closed"}
              /\ last'.position = <<Head(pending)>>
              /\ last'.pnl_pct =
                    <<PnlPct(Head(pending),
                             prices[Head(pending).symbol].mid)>>
      ]_vars

\* C24 witness: the fetch for BTC failed and those for ETH and SOL
\* succeeded; the position on ETH was evaluated and closed in that cycle
\* while the one on BTC stays open.
C24_Witness ==
    /\ last.op = "closed"
    /\ last.position[1].symbol = "ETH"
    /\ ~InPrices("BTC", prices)
    /\ InPrices("ETH", prices)
    /\ InPrices("SOL", prices)
    /\ HasKey(positions, "BTC")

\* C25: when the fetch of the order flow fails, the batch of the cycle is
\* empty and so is the sequence of signals; the cycle goes on: admission
\* opens nothing and changes nothing, every open position enters the
\* evaluation pass, and each one that has a quote is evaluated, and closed
\* exactly when its P&L percent is at or beyond a threshold.
C25_FeedUnavailable ==
    [][ /\ (pc = "sweeps" /\ last'.op = "feed_unavailable") =>
              /\ sweeps' = <<>>
              /\ pc' = "generate"
              /\ prices' = prices
        /\ (pc = "generate" /\ last.op = "feed_unavailable") =>
              /\ signals' = <<>>
              /\ pc' = "admit"
              /\ last'.batch = <<>>
        /\ (pc = "admit" /\ last.op = "generate" /\ last.batch = <<>>) =>
              /\ UNCHANGED <<balance, positions, trades, trade_counter>>
              /\ pc' = "update"
              /\ pending' = positions
        /\ AtQuotedPosition =>
              LET pct == PnlPct(Head(pending),
                                prices[Head(pending).symbol].mid)
              IN  /\ Closed <=> (RGe(pct, tp_percent) \/ RLe(pct, RNeg(sl_percent)))
                  /\ Closed => ~HasKey(positions', Head(pending).symbol)
                  /\ pending' = Tail(pending)
      ]_vars

\* C25 witness: the fetch of the order flow has failed in a cycle that has
\* a quote for an open position whose P&L percent is beyond a threshold;
\* the batch is empty and the cycle is at signal generation.
C25_Witness ==
    /\ last.op = "feed_unavailable"
    /\ pc = "generate"
    /\ sweeps = <<>>
    /\ \E i \in 1..Len(positions) :
          /\ InPrices(positions[i].symbol, prices)
          /\ CloseReason(PnlPct(positions[i],
                                prices[positions[i].symbol].mid)) # "NONE"

\* C26: a step that opens or closes a position while the delivery of its
\* notification fails is the step it would be with the delivery
\* succeeding: the position is stored (or removed and its trade recorded),
\* the balance debited (or credited), one snapshot holding the resulting
\* account is written, and the cycle goes on with the next signal or
\* position.
C26_NotificationFailure ==
    [][ ((Admitted \/ Closed) /\ ~last'.delivered) =>
          /\ Admitted =>
                /\ Len(positions') = Len(positions) + 1
                /\ positions'[Len(positions')].symbol = Head(signals).symbol
                /\ balance' = RSub(balance, Head(signals).size)
                /\ trade_counter' = trade_counter + 1
                /\ signals' = Tail(signals)
          /\ Closed =>
                /\ ~HasKey(positions', Head(pending).symbol)
                /\ Len(trades') = Len(trades) + 1
                /\ balance' = RAdd(balance,
                                   RAdd(Head(pending).size,
                                        trades'[Len(trades')].pnl_amount))
                /\ pending' = Tail(pending)
          /\ writes' = writes + 1
          /\ state_file' # NoFile
          /\ state_file'.balance = balance'
          /\ state_file'.positions = positions'
          /\ state_file'.trades = trades'
          /\ state_file'.trade_counter = trade_counter'
          /\ pc' = pc
          /\ prices' = prices
      ]_vars

\* C26 witness: a position was opened while its notification could not be
\* delivered; it is in memory and in the snapshot, the balance is debited,
\* and admission goes on with a second signal of the batch.
C26_Witness ==
    /\ last.op = "opened"
    /\ ~last.delivered
    /\ Len(positions) = 1
    /\ balance = RSub(initial_balance, positions[1].size)
    /\ state_file # NoFile
    /\ state_file.positions = positions
    /\ state_file.balance = balance
    /\ pc = "admit"
    /\ signals # <<>>

---------------------------------------------------------------------------
(* Order of the steps of a cycle.                                          *)

\* Signals are generated from quotes fetched in the same cycle, before.
QuotesBeforeSignals ==
    Len(signals') > Len(signals)
       => /\ pc = "generate"
          /\ ~NoPrices(prices)
          /\ prices' = prices
          /\ \A i \in 1..Len(signals') :
                signals'[i].price = prices[signals'[i].symbol].mid

\* Positions are opened in the admission pass and closed in the evaluation
\* pass, and no admission follows the start of the evaluation pass within
\* the cycle.
AdmissionsBeforeEvaluations ==
    /\ Admitted => pc = "admit" /\ pending = <<>>
    /\ Closed => pc = "update" /\ signals = <<>>
    /\ pc = "update" => pc' \in {"update", "prices", "interrupted"}

\* A notification is emitted only for a transition already in the snapshot:
\* whenever one has been emitted the file holds the account it is about.
SavedBeforeNotified ==
    notified' > notified
       => /\ state_file' # NoFile
          /\ ~IsTorn(state_file')
          /\ state_file'.balance = balance'
          /\ state_file'.positions = positions'
          /\ state_file'.trades = trades'
          /\ state_file'.trade_counter = trade_counter'

\* C27: in every cycle the quotes are fetched before the signals are
\* generated, all admissions precede all evaluations, and for each opening
\* and each close the snapshot is saved before the notification is emitted.
C27_StepOrder ==
    [][ /\ QuotesBeforeSignals
        /\ AdmissionsBeforeEvaluations
        /\ SavedBeforeNotified
      ]_vars

---------------------------------------------------------------------------
(* Trade history and the evaluation pass.                                  *)

\* C28: no step removes or changes a trade of the history; a step adds at
\* most one trade, at the end, and adds one exactly when it closes a
\* position, the trade being that of the position closed; so the number of
\* trades is the number of positions opened and no longer open.
C28_TradesAppendOnly ==
    [][ /\ Len(trades') \in {Len(trades), Len(trades) + 1}
        /\ \A i \in 1..Len(trades) : trades'[i] = trades[i]
        /\ Len(trades') = Len(trades) + 1
              <=> Len(positions') = Len(positions) - 1
        /\ Len(trades') = Len(trades) + 1 =>
              /\ AtQuotedPosition
              /\ trades'[Len(trades')].id = Head(pending).id
              /\ trades'[Len(trades')].symbol = Head(pending).symbol
              /\ ~HasKey(positions', Head(pending).symbol)
        /\ Len(trades') = trade_counter' - Len(positions')
      ]_vars

\* C28 witness: a second position has been closed; the history holds the
\* trade of the first close and, after it, the trade of the second.
C28_Witness ==
    /\ last.op = "closed"
    /\ Len(trades) = 2
    /\ trades[1].id # trades[2].id
    /\ trades[2].id = last.position[1].id
    /\ trade_counter - Len(positions) = 2

\* C29: the evaluation pass of a cycle takes the positions open at its
\* start, each once; every step of the pass takes exactly the next one,
\* which is still open as it was, evaluates it if it has a quote, closes at
\* most that one, and leaves every position still to come open and in the
\* pass; the pass ends only when all were taken.
C29_EvaluatedOnce ==
    [][ /\ (pc = "admit" /\ pc' = "update") =>
              /\ pending' = positions
              /\ \A i, j \in 1..Len(pending') :
                    pending'[i].symbol = pending'[j].symbol => i = j
        /\ (pc = "update" /\ pending # <<>>) =>
              /\ pending' = Tail(pending)
              /\ HasKey(positions, Head(pending).symbol)
              /\ DictGet(positions, Head(pending).symbol) = Head(pending)
              /\ \A i \in 2..Len(pending) :
                    /\ HasKey(positions', pending[i].symbol)
                    /\ DictGet(positions', pending[i].symbol) = pending[i]
              /\ Len(positions') >= Len(positions) - 1
              /\ Len(trades') <= Len(trades) + 1
              /\ InPrices(Head(pending).symbol, prices) =>
                    /\ last'.op \in {"hold", "closed"}
                    /\ last'.position = <<Head(pending)>>
                    /\ last'.op = "closed"
                          <=> ~HasKey(positions', Head(pending).symbol)
        /\ (pc = "update" /\ pc' = "prices") => pending = <<>>
      ]_vars

\* C29 witness: the first of two positions of the pass has been closed,
\* and the second is the next to be evaluated, still open and quoted.
C29_Witness ==
    /\ last.op = "closed"
    /\ pc = "update"
    /\ Len(pending) = 1
    /\ InPrices(pending[1].symbol, prices)
    /\ HasKey(positions, pending[1].symbol)
    /\ ~HasKey(positions, last.position[1].symbol)
    /\ trades[Len(trades)].closed_at = cycle

---------------------------------------------------------------------------
(* One event under both rules.                                             *)

\* An eligible event that meets the liquidation condition and whose trader
\* meets the whale condition in the batch.
DoubleEvent(e, batch, pr) ==
    /\ Eligible(e, pr)
    /\ e.usd_amount >= 50000
    /\ e.size > 1000
    /\ e.trader # NoKey
    /\ LargeEventsBy(batch, e.trader) >= 2

\* C30: an event that meets both rules yields two signals on its symbol,
\* next to each other: first the liquidation signal with the side inverted,
\* then the whale signal with the side of the event; each rule yields its
\* signals whatever the other does; admission takes the signals in that
\* order, so the whale signal opens a position only when the liquidation
\* signal before it was rejected, and is a duplicate when that one opened.
C30_BothRulesFire ==
    [][ /\ pc = "generate" =>
              /\ \A k \in 1..Len(sweeps) :
                    DoubleEvent(sweeps[k], sweeps, prices) =>
                       \E i \in 1..(Len(signals') - 1) :
                          /\ IsLiq(signals'[i])
                          /\ signals'[i].reason[2] = sweeps[k].usd_amount
                          /\ signals'[i].symbol
                                = StatedSymbol(sweeps[k].market)
                          /\ signals'[i].side
                                = IF sweeps[k].side = "BUY" THEN "SELL"
                                  ELSE "BUY"
                          /\ IsWhale(signals'[i + 1])
                          /\ signals'[i + 1].reason[2] = sweeps[k].trader
                          /\ signals'[i + 1].symbol = signals'[i].symbol
                          /\ signals'[i + 1].side = sweeps[k].side
              /\ Len(signals') = Len(StatedLiqEvents(sweeps, prices))
                                   + Len(StatedWhaleEvents(sweeps, prices))
        /\ AtSignal =>
              /\ last'.signal = <<Head(signals)>>
              /\ signals' = Tail(signals)
        /\ ( /\ AtSignal
             /\ IsWhale(Head(signals))
             /\ last.signal # <<>>
             /\ IsLiq(last.signal[1])
             /\ last.signal[1].symbol = Head(signals).symbol ) =>
              /\ Admitted =>
                    last.op \in {"gated", "duplicate", "insufficient"}
              /\ last.op = "opened" =>
                    ~Admitted /\ last'.op = "duplicate"
      ]_vars

\* C30 witness: the event BTC-PERP BUY 50000 of the whale T1 gave a
\* liquidation signal (SELL, confidence 50) and a whale signal (BUY, 75);
\* the first was rejected by the confidence gate, and the second has
\* opened the only position, BTC BUY of size 150.
C30_Witness ==
    /\ last.op = "opened"
    /\ IsWhale(last.signal[1])
    /\ last.signal[1].reason = <<"Whale", "T1", 2>>
    /\ last.signal[1].symbol = "BTC"
    /\ last.signal[1].size = Num(150)
    /\ trade_counter = 1
    /\ Len(positions) = 1
    /\ positions[1].side = "BUY"
    /\ positions[1].symbol = "BTC"

---------------------------------------------------------------------------
(* The whale rule and the event's own amount.                              *)

\* The eligible events of a batch whose own usdAmount is at least 10000 and
\* whose (named) trader has at least two events of usdAmount >= 10000.
OwnLargeWhaleEvents(batch, pr) ==
    SelectSeq(StatedWhaleEvents(batch, pr), LAMBDA e : e.usd_amount >= 10000)

\* C31: the whale signals generated from a batch are, in order, those of
\* the eligible events of a whale whose own usdAmount is at least 10000; an
\* event below 10000 yields no whale signal.
C31_WhaleOwnAmount ==
    [][ pc = "generate" =>
          LET ev == OwnLargeWhaleEvents(sweeps, prices)
              wh == WhaleOf(signals')
          IN  /\ Len(wh) = Len(ev)
              /\ \A k \in 1..Len(wh) :
                    /\ wh[k].symbol = StatedSymbol(ev[k].market)
                    /\ wh[k].side = ev[k].side
      ]_vars

---------------------------------------------------------------------------
(* One transition per symbol and cycle.                                    *)

\* C32: a position opened in a cycle is evaluated in that cycle against
\* the quote that gave its entry price: its P&L percent is 0 and it stays
\* open; every close is of a position opened in an earlier cycle; and no
\* position is opened on a symbol that had a close in the same cycle.
C32_NoSameCycleClose ==
    [][ /\ (AtQuotedPosition /\ Head(pending).opened_at = cycle) =>
              /\ Head(pending).entry_price
                    = prices[Head(pending).symbol].mid
              /\ last'.op = "hold"
              /\ last'.pnl_pct = <<Num(0)>>
              /\ positions' = positions
              /\ trades' = trades
        /\ Closed =>
              /\ Head(pending).opened_at < cycle
              /\ trades'[Len(trades')].opened_at
                    < trades'[Len(trades')].closed_at
        /\ Admitted =>
              /\ positions'[Len(positions')].opened_at = cycle
              /\ \A i \in 1..Len(trades) :
                    ~ ( /\ trades[i].symbol = Head(signals).symbol
                        /\ trades[i].closed_at = cycle )
      ]_vars

\* C32 witness: a position opened in this cycle has been evaluated in
\* this cycle, at P&L percent 0, and is still open.
C32_Witness ==
    /\ last.op = "hold"
    /\ last.position[1].opened_at = cycle
    /\ last.pnl_pct = <<Num(0)>>
    /\ HasKey(positions, last.position[1].symbol)
    /\ pc = "update"

---------------------------------------------------------------------------
(* Invariants of the account.                                              *)

\* C33: the balance is never negative.
C33_BalanceNonNegative == RGe(balance, Num(0))

\* C34: from a fresh account, the trade counter is at all times the number
\* of open positions plus the number of recorded trades, and no step
\* decreases it.
C34_CounterCountsOpened ==
    [][ /\ trade_counter = Len(positions) + Len(trades)
        /\ trade_counter' = Len(positions') + Len(trades')
        /\ trade_counter' >= trade_counter
        /\ Admitted <=> trade_counter' = trade_counter + 1
        /\ Closed => trade_counter' = trade_counter
      ]_vars

\* C34 witness: three positions were opened, two of them are closed and
\* one is open, and the counter is 3.
C34_Witness ==
    /\ trade_counter = 3
    /\ Len(positions) = 1
    /\ Len(trades) = 2

\* the ids of the open positions followed by those of the trades
RecordIds ==
    [i \in 1..(Len(positions) + Len(trades)) |->
        IF i <= Len(positions) THEN positions[i].id
        ELSE trades[i - Len(positions)].id]

---------------------------------------------------------------------------
(* The snapshots written.                                                  *)

\* C36: every complete snapshot on disk satisfies the invariants of the
\* account: its balance plus the sizes of its open positions is the
\* initial balance plus the realized P&L of its trades, and its trade
\* counter is the number of its positions plus the number of its trades;
\* so does the one the interrupt handler writes.
C36_SnapshotInvariants ==
    (state_file # NoFile /\ ~IsTorn(state_file)) =>
       /\ RAdd(state_file.balance, SumSizes(state_file.positions))
             = RAdd(initial_balance, SumPnl(state_file.trades))
       /\ state_file.trade_counter
             = Len(state_file.positions) + Len(state_file.trades)

---------------------------------------------------------------------------
(* Python floats as IEEE-754 binary64: natural numbers of any size as     *)
(* sequences of limbs, and on them the doubles with round-to-nearest-even *)
(* as the interpreter computes them (no value here is large or small     *)
(* enough to overflow or to be subnormal).                                 *)

\* A natural number: its digits to the base LimbBase = 2^15, the lowest
\* first, the highest not 0; <<>> is 0.
LimbBase == 2^15

RECURSIVE BNorm(_)
BNorm(a) ==
    IF a = <<>> THEN <<>>
    ELSE IF a[Len(a)] = 0 THEN BNorm(SubSeq(a, 1, Len(a) - 1))
    ELSE a

RECURSIVE BFromInt(_)
BFromInt(n) ==
    IF n = 0 THEN <<>> ELSE <<n % LimbBase>> \o BFromInt(n \div LimbBase)

RECURSIVE BAddC(_, _, _)
BAddC(a, b, c) ==
    IF a = <<>> /\ b = <<>> THEN (IF c = 0 THEN <<>> ELSE <<c>>)
    ELSE LET x == (IF a = <<>> THEN 0 ELSE Head(a))
                    + (IF b = <<>> THEN 0 ELSE Head(b)) + c
         IN  <<x % LimbBase>>
                \o BAddC(IF a = <<>> THEN <<>> ELSE Tail(a),
                         IF b = <<>> THEN <<>> ELSE Tail(b),
                         x \div LimbBase)

BAdd(a, b) == BAddC(a, b, 0)

\* a - b - c for a >= b + c, digit by digit with the borrow c
RECURSIVE BSubC(_, _, _)
BSubC(a, b, c) ==
    IF a = <<>> THEN <<>>
    ELSE LET x == Head(a) - (IF b = <<>> THEN 0 ELSE Head(b)) - c
         IN  <<IF x < 0 THEN x + LimbBase ELSE x>>
                \o BSubC(Tail(a), IF b = <<>> THEN <<>> ELSE Tail(b),
                         IF x < 0 THEN 1 ELSE 0)

BSub(a, b) == BNorm(BSubC(a, b, 0))

\* -1, 0 or 1 as a < b, a = b or a > b
RECURSIVE BCmpAt(_, _, _)
BCmpAt(a, b, i) ==
    IF i = 0 THEN 0
    ELSE IF a[i] < b[i] THEN -1
    ELSE IF a[i] > b[i] THEN 1
    ELSE BCmpAt(a, b, i - 1)

BCmp(a, b) ==
    IF Len(a) < Len(b) THEN -1
    ELSE IF Len(a) > Len(b) THEN 1
    ELSE BCmpAt(a, b, Len(a))

\* a * k + c for a digit k
RECURSIVE BMulSmall(_, _, _)
BMulSmall(a, k, c) ==
    IF a = <<>> THEN (IF c = 0 THEN <<>> ELSE <<c>>)
    ELSE LET x == Head(a) * k + c
         IN  <<x % LimbBase>> \o BMulSmall(Tail(a), k, x \div LimbBase)

BShiftLimb(a) == IF a = <<>> THEN <<>> ELSE <<0>> \o a

RECURSIVE BMul(_, _)
BMul(a, b) ==
    IF a = <<>> \/ b = <<>> THEN <<>>
    ELSE BAdd(BNorm(BMulSmall(a, Head(b), 0)), BShiftLimb(BMul(a, Tail(b))))

RECURSIVE Pow2(_)
Pow2(k) == IF k = 0 THEN 1 ELSE 2 * Pow2(k - 1)

RECURSIVE BitsOf(_)
BitsOf(n) == IF n = 0 THEN 0 ELSE 1 + BitsOf(n \div 2)

BitLen(a) ==
    IF a = <<>> THEN 0 ELSE 15 * (Len(a) - 1) + BitsOf(a[Len(a)])

RECURSIVE BShiftLimbs(_, _)
BShiftLimbs(a, n) == IF n = 0 THEN a ELSE BShiftLimbs(BShiftLimb(a), n - 1)

\* a * 2^k
BShl(a, k) ==
    BShiftLimbs(BNorm(BMulSmall(a, Pow2(k % 15), 0)), k \div 15)

\* floor(a / d) for a digit d > 0, from the highest digit down with the
\* remainder r
RECURSIVE BDivSmall(_, _, _)
BDivSmall(a, d, r) ==
    IF a = <<>> THEN <<>>
    ELSE LET x == r * LimbBase + a[Len(a)]
         IN  BDivSmall(SubSeq(a, 1, Len(a) - 1), d, x % d) \o <<x \div d>>

\* floor(a / 2^k)
BShr(a, k) ==
    LET n == k \div 15
        hi == IF n >= Len(a) THEN <<>> ELSE SubSeq(a, n + 1, Len(a))
    IN  BNorm(BDivSmall(hi, Pow2(k % 15), 0))

\* the largest digit k in lo..hi with k * d <= x (lo is one)
RECURSIVE BDigit(_, _, _, _)
BDigit(x, d, lo, hi) ==
    IF lo = hi THEN lo
    ELSE LET mid == (lo + hi + 1) \div 2
         IN  IF BCmp(BNorm(BMulSmall(d, mid, 0)), x) <= 0
             THEN BDigit(x, d, mid, hi)
             ELSE BDigit(x, d, lo, mid - 1)

\* quotient q and remainder r of a by d > 0, digit by digit from the
\* highest
RECURSIVE BDivRem(_, _)
BDivRem(a, d) ==
    IF a = <<>> THEN [q |-> <<>>, r |-> <<>>]
    ELSE LET up == BDivRem(Tail(a), d)
             x == BAdd(BShiftLimb(up.r),
                       IF Head(a) = 0 THEN <<>> ELSE <<Head(a)>>)
             k == BDigit(x, d, 0, LimbBase - 1)
         IN  [q |-> BNorm(<<k>> \o up.q),
              r |-> BSub(x, BNorm(BMulSmall(d, k, 0)))]

\* A double: s * m * 2^e with s the sign (0 for zero) and m of exactly 53
\* bits (<<>> for zero).
FZero == [s |-> 0, m |-> <<>>, e |-> 0]

\* The double nearest to s * (m + f) * 2^e, ties to even, where 0 < f < 1
\* if sticky and f = 0 if not (m has more than 53 bits if sticky).
FRound(s, m, e, sticky) ==
    IF m = <<>> THEN FZero
    ELSE LET bl == BitLen(m)
         IN  IF bl <= 53
             THEN [s |-> s, m |-> BShl(m, 53 - bl), e |-> e - (53 - bl)]
             ELSE LET t == bl - 53
                      q == BShr(m, t)
                      r == BSub(m, BShl(q, t))
                      c == BCmp(r, BShl(<<1>>, t - 1))
                      up == c > 0 \/ (c = 0 /\ (sticky \/ q[1] % 2 = 1))
                      q2 == IF up THEN BAdd(q, <<1>>) ELSE q
                  IN  IF BitLen(q2) = 54
                      THEN [s |-> s, m |-> BShr(q2, 1), e |-> e + t + 1]
                      ELSE [s |-> s, m |-> q2, e |-> e + t]

\* float(n) for an integer n
FInt(n) ==
    FRound(IF n < 0 THEN -1 ELSE 1, BFromInt(IF n < 0 THEN -n ELSE n), 0,
           FALSE)

FNeg(x) == [x EXCEPT !.s = -x.s]

\* x * y
FMul(x, y) ==
    IF x.s = 0 \/ y.s = 0 THEN FZero
    ELSE FRound(x.s * y.s, BMul(x.m, y.m), x.e + y.e, FALSE)

\* x / y for y # 0
FDiv(x, y) ==
    IF x.s = 0 THEN FZero
    ELSE LET qr == BDivRem(BShl(x.m, 56), y.m)
         IN  FRound(x.s * y.s, qr.q, x.e - y.e - 56, qr.r # <<>>)

\* the sign of x - y, and its magnitude as a natural number times 2^e
FDiff(x, y) ==
    IF y.s = 0 THEN [s |-> x.s, m |-> x.m, e |-> x.e]
    ELSE IF x.s = 0 THEN [s |-> -y.s, m |-> y.m, e |-> y.e]
    ELSE LET e0 == IF x.e < y.e THEN x.e ELSE y.e
             a == BShl(x.m, x.e - e0)
             b == BShl(y.m, y.e - e0)
             c == BCmp(a, b)
         IN  IF x.s # y.s THEN [s |-> x.s, m |-> BAdd(a, b), e |-> e0]
             ELSE IF c = 0 THEN [s |-> 0, m |-> <<>>, e |-> 0]
             ELSE IF c > 0 THEN [s |-> x.s, m |-> BSub(a, b), e |-> e0]
             ELSE [s |-> -x.s, m |-> BSub(b, a), e |-> e0]

\* x - y and x + y
FSub(x, y) == LET d == FDiff(x, y) IN FRound(d.s, d.m, d.e, FALSE)
FAdd(x, y) == FSub(x, FNeg(y))

\* x >= y and x <= y
FGe(x, y) == FDiff(x, y).s >= 0
FLe(x, y) == FDiff(x, y).s <= 0

\* the double the literal or the parsed string n/d denotes (n, d integers
\* that are doubles themselves)
FRatio(n, d) == FDiv(FInt(n), FInt(d))

---------------------------------------------------------------------------
(* The price levels of open_position and the decision of update_positions *)
(* in the floats of the interpreter.                                        *)

\* lines 108-110: float(px) of the best bid and the best ask, given in
\* thousandths, and their mid
FloatQuote(px) ==
    LET best_bid == FRatio(px[1], 1000)
        best_ask == FRatio(px[2], 1000)
    IN  [bid |-> best_bid, ask |-> best_ask,
         mid |-> FDiv(FAdd(best_bid, best_ask), FInt(2))]

\* the float of a threshold of the constructor (lines 53-54)
FloatOf(r) == FRatio(r.n, r.d)

\* lines 221-228: the levels stored with a position
FloatLevels(entry_price, side) ==
    LET tp == FDiv(FloatOf(tp_percent), FInt(100))
        sl == FDiv(FloatOf(sl_percent), FInt(100))
    IN  IF side = "BUY"
        THEN [tp_price |-> FMul(entry_price, FAdd(FInt(1), tp)),
              sl_price |-> FMul(entry_price, FSub(FInt(1), sl))]
        ELSE [tp_price |-> FMul(entry_price, FSub(FInt(1), tp)),
              sl_price |-> FMul(entry_price, FAdd(FInt(1), sl))]

\* lines 267-271
FloatPnlPct(position, current_price) ==
    IF position.side = "BUY"
    THEN FMul(FDiv(FSub(current_price, position.entry_price),
                   position.entry_price), FInt(100))
    ELSE FMul(FDiv(FSub(position.entry_price, current_price),
                   position.entry_price), FInt(100))

\* lines 274-278
FloatCloseReason(pnl_pct) ==
    IF FGe(pnl_pct, FloatOf(tp_percent)) THEN "TAKE_PROFIT"
    ELSE IF FLe(pnl_pct, FNeg(FloatOf(sl_percent))) THEN "STOP_LOSS"
    ELSE "NONE"

\* The books answered: <<best bid, best ask>> in thousandths, at the entry
\* and one cycle later.
EntryBooks == {<<100000, 100000>>, <<99900, 100100>>, <<3000, 3000>>,
               <<2990, 3010>>, <<50000, 50000>>}
CurrentBooks == {<<100600, 100600>>, <<100500, 100700>>, <<100601, 100601>>,
                 <<97000, 97000>>, <<99400, 99400>>, <<103000, 103000>>,
                 <<3018, 3018>>, <<3017, 3019>>, <<2910, 2910>>,
                 <<2982, 2982>>, <<3090, 3090>>, <<3080, 3100>>,
                 <<50300, 50300>>, <<48500, 48500>>, <<50200, 50400>>,
                 <<3000, 3000>>}

LevelInit ==
    /\ balance = Num(1000)
    /\ initial_balance = Num(1000)
    /\ positions = <<>>
    /\ trades = <<>>
    /\ trade_counter = 0
    /\ state_file = NoFile
    /\ writes = 0
    /\ disk_faulty = FALSE
    /\ notified = 0
    /\ pc = "quote_entry"
    /\ prices = <<>>
    /\ sweeps \in [entry : EntryBooks, current : CurrentBooks]
    /\ signals \in {<<[side |-> s]>> : s \in {"BUY", "SELL"}}
    /\ pending = <<>>
    /\ cycle = 0
    /\ last = [op |-> "start"]

\* get_hyperliquid_price of the cycle of the entry and of the next one
LevelQuote ==
    /\ pc \in {"quote_entry", "quote_current"}
    /\ prices' = <<FloatQuote(IF pc = "quote_entry" THEN sweeps.entry
                                                   ELSE sweeps.current)>>
    /\ pc' = IF pc = "quote_entry" THEN "open" ELSE "update"
    /\ UNCHANGED <<account, disk, notified, sweeps, signals, pending, cycle,
                   last>>

\* open_position, lines 221-243: the position with its levels
LevelOpen ==
    /\ pc = "open"
    /\ LET entry_price == prices[1].mid
           side == signals[1].side
           levels == FloatLevels(entry_price, side)
       IN  positions' = <<[side |-> side, entry_price |-> entry_price,
                           tp_price |-> levels.tp_price,
                           sl_price |-> levels.sl_price]>>
    /\ signals' = <<>>
    /\ pc' = "quote_current"
    /\ UNCHANGED <<balance, initial_balance, trades, trade_counter, disk,
                   notified, prices, sweeps, pending, cycle, last>>

\* update_positions, lines 264-278: the percentage and the decision
LevelUpdate ==
    /\ pc = "update"
    /\ LET pnl_pct == FloatPnlPct(positions[1], prices[1].mid)
       IN  last' = [op |-> FloatCloseReason(pnl_pct), pnl_pct |-> pnl_pct]
    /\ pc' = "decided"
    /\ UNCHANGED <<account, disk, notified, prices, sweeps, signals, pending,
                   cycle>>

LevelNext == LevelQuote \/ LevelOpen \/ LevelUpdate

LevelSpec == LevelInit /\ [][LevelNext]_vars

\* the current mid has reached the level stored as tp_price, as sl_price
ReachedTp(position, current_price) ==
    IF position.side = "BUY" THEN FGe(current_price, position.tp_price)
    ELSE FLe(current_price, position.tp_price)

ReachedSl(position, current_price) ==
    IF position.side = "BUY" THEN FLe(current_price, position.sl_price)
    ELSE FGe(current_price, position.sl_price)

\* C37: the decision taken on the percentage agrees with the stored levels:
\* a position of positive entry price closes as TAKE_PROFIT exactly if the
\* current mid has reached its tp_price (BUY: at or above, SELL: at or
\* below) and as STOP_LOSS exactly if it has reached its sl_price (BUY: at
\* or below, SELL: at or above).
C37_DecisionAgreesWithLevels ==
    pc = "decided" =>
       /\ (last.op = "TAKE_PROFIT") <=> ReachedTp(positions[1], prices[1].mid)
       /\ (last.op = "STOP_LOSS") <=> ReachedSl(positions[1], prices[1].mid)

---------------------------------------------------------------------------
(* The cross-chain escrow skill (cross_chain_escrow_skill.py): one         *)
(* CrossChainEscrowSkill object and the calls made on it.  The skill is a  *)
(* program of its own; its state is kept in the variables named below.     *)

\* self.active_escrows: ids are 1..len, no entry is ever deleted, so the
\* dict is the sequence of its values
active_escrows == positions
\* self.agent_reputation: address -> record, NoReputation if absent
agent_reputation == trades
\* the calls of _simulate_cctp_bridge so far, each with the escrow it was
\* made for (observation only)
bridged == signals
\* number of calls made on the skill
calls == cycle

\* greatest number of escrows created and of calls made
MaxEscrows == 2
MaxCalls == 5

\* the addresses escrows are created for, and those calls are made from
Agents == {"0xAgentA", "0xAgentB"}
Callers == Agents \cup {"0xAgentC"}
Amounts == {100, 250}
\* ids given by callers: those of the escrows and one never created
EscrowIds == 1..(MaxEscrows + 1)

NoReputation == [none |-> "reputation"]

\* lines 347-363
update_reputation(reputation, agent_address, success) ==
    LET rep == IF reputation[agent_address] = NoReputation
               THEN [transactions |-> 0, successful |-> 0, rating |-> 50]
               ELSE reputation[agent_address]
    IN  [reputation EXCEPT ![agent_address] =
            IF success
            THEN [transactions |-> rep.transactions + 1,
                  successful |-> rep.successful + 1,
                  rating |-> IF rep.rating + 2 > 100 THEN 100
                             ELSE rep.rating + 2]
            ELSE [transactions |-> rep.transactions + 1,
                  successful |-> rep.successful,
                  rating |-> IF rep.rating - 3 < 0 THEN 0
                             ELSE rep.rating - 3]]

\* the dict a call returns, as far as it is read here
EscrowResult(op, escrow_id, success, status) ==
    [op |-> op, escrow_id |-> escrow_id, success |-> success,
     status |-> status]

\* lines 51-69
EscrowInit ==
    /\ balance = Num(0)
    /\ initial_balance = Num(0)
    /\ positions = <<>>
    /\ trades = [a \in Agents |-> NoReputation]
    /\ trade_counter = 0
    /\ state_file = NoFile
    /\ writes = 0
    /\ disk_faulty = FALSE
    /\ notified = 0
    /\ pc = "escrow"
    /\ prices = <<>>
    /\ sweeps = <<>>
    /\ signals = <<>>
    /\ pending = <<>>
    /\ cycle = 0
    /\ last = EscrowResult("init", 0, TRUE, "NONE")

EscrowUnchanged ==
    UNCHANGED <<balance, initial_balance, trade_counter, disk, notified, pc,
                prices, sweeps, pending>>

\* lines 71-127
create_escrow ==
    /\ pc = "escrow"
    /\ calls < MaxCalls
    /\ Len(active_escrows) < MaxEscrows
    /\ \E agent_a \in Agents, agent_b \in Agents, amount_usdc \in Amounts :
         LET escrow_id == Len(active_escrows) + 1
         IN  /\ active_escrows' =
                   Append(active_escrows,
                          [id |-> escrow_id, agent_a |-> agent_a,
                           agent_b |-> agent_b, amount |-> amount_usdc,
                           status |-> "pending"])
             /\ last' = EscrowResult("create_escrow", escrow_id, TRUE,
                                     "PENDING")
    /\ calls' = calls + 1
    /\ UNCHANGED <<agent_reputation, bridged>>
    /\ EscrowUnchanged

\* lines 129-153
accept_escrow ==
    /\ pc = "escrow"
    /\ calls < MaxCalls
    /\ \E escrow_id \in EscrowIds, agent_b_address \in Callers :
         IF escrow_id \notin DOMAIN active_escrows
         THEN /\ last' = EscrowResult("accept_escrow", escrow_id, FALSE,
                                      "Escrow not found")
              /\ UNCHANGED active_escrows
         ELSE IF active_escrows[escrow_id].agent_b # agent_b_address
         THEN /\ last' = EscrowResult("accept_escrow", escrow_id, FALSE,
                                      "Not authorized")
              /\ UNCHANGED active_escrows
         ELSE /\ active_escrows' =
                    [active_escrows EXCEPT ![escrow_id].status = "active"]
              /\ last' = EscrowResult("accept_escrow", escrow_id, TRUE,
                                      "ACTIVE")
    /\ calls' = calls + 1
    /\ UNCHANGED <<agent_reputation, bridged>>
    /\ EscrowUnchanged

\* lines 155-174
deliver_service ==
    /\ pc = "escrow"
    /\ calls < MaxCalls
    /\ \E escrow_id \in EscrowIds :
         IF escrow_id \notin DOMAIN active_escrows
         THEN /\ last' = EscrowResult("deliver_service", escrow_id, FALSE,
                                      "Escrow not found")
              /\ UNCHANGED active_escrows
         ELSE /\ active_escrows' =
                    [active_escrows EXCEPT ![escrow_id].status = "active"]
              /\ last' = EscrowResult("deliver_service", escrow_id, TRUE,
                                      "DELIVERED")
    /\ calls' = calls + 1
    /\ UNCHANGED <<agent_reputation, bridged>>
    /\ EscrowUnchanged

\* lines 176-214
confirm_and_release ==
    /\ pc = "escrow"
    /\ calls < MaxCalls
    /\ \E escrow_id \in EscrowIds, agent_a_address \in Callers :
         IF escrow_id \notin DOMAIN active_escrows
         THEN /\ last' = EscrowResult("confirm_and_release", escrow_id,
                                      FALSE, "Escrow not found")
              /\ UNCHANGED <<active_escrows, agent_reputation, bridged>>
         ELSE IF active_escrows[escrow_id].agent_a # agent_a_address
         THEN /\ last' = EscrowResult("confirm_and_release", escrow_id,
                                      FALSE, "Not authorized")
              /\ UNCHANGED <<active_escrows, agent_reputation, bridged>>
         ELSE LET escrow == active_escrows[escrow_id]
              IN  /\ bridged' = Append(bridged,
                                       [escrow_id |-> escrow_id,
                                        amount |-> escrow.amount,
                                        recipient |-> escrow.agent_b])
                  /\ active_escrows' =
                        [active_escrows EXCEPT
                            ![escrow_id].status = "completed"]
                  /\ agent_reputation' =
                        update_reputation(
                            update_reputation(agent_reputation,
                                              escrow.agent_a, TRUE),
                            escrow.agent_b, TRUE)
                  /\ last' = EscrowResult("confirm_and_release", escrow_id,
                                          TRUE, "COMPLETED")
    /\ calls' = calls + 1
    /\ EscrowUnchanged

\* lines 216-236
initiate_dispute ==
    /\ pc = "escrow"
    /\ calls < MaxCalls
    /\ \E escrow_id \in EscrowIds :
         IF escrow_id \notin DOMAIN active_escrows
         THEN /\ last' = EscrowResult("initiate_dispute", escrow_id, FALSE,
                                      "Escrow not found")
              /\ UNCHANGED active_escrows
         ELSE /\ active_escrows' =
                    [active_escrows EXCEPT ![escrow_id].status = "disputed"]
              /\ last' = EscrowResult("initiate_dispute", escrow_id, TRUE,
                                      "DISPUTED")
    /\ calls' = calls + 1
    /\ UNCHANGED <<agent_reputation, bridged>>
    /\ EscrowUnchanged

EscrowNext ==
    \/ create_escrow
    \/ accept_escrow
    \/ deliver_service
    \/ confirm_and_release
    \/ initiate_dispute

EscrowSpec == EscrowInit /\ [][EscrowNext]_vars

\* the releases made for an escrow
RECURSIVE ReleasesOf(_, _)
ReleasesOf(log, escrow_id) ==
    IF log = <<>> THEN 0
    ELSE (IF Head(log).escrow_id = escrow_id THEN 1 ELSE 0)
            + ReleasesOf(Tail(log), escrow_id)

\* C38: the funds of an escrow are released at most once: once
\* confirm_and_release has succeeded for an escrow, no call changes its
\* status away from completed, releases its amount again, or credits
\* reputation for it again.
C38_ReleasedAtMostOnce ==
    [][\A escrow_id \in DOMAIN active_escrows :
          active_escrows[escrow_id].status = "completed" =>
             /\ active_escrows'[escrow_id].status = "completed"
             /\ ReleasesOf(bridged', escrow_id)
                   = ReleasesOf(bridged, escrow_id)
             /\ last'.escrow_id = escrow_id =>
                   agent_reputation' = agent_reputation]_vars

=============================================================================
